---- MODULE Spec2Model ----
(***************************************************************************)
(* Model of src/src/strip.cpp: the hardware abstraction routines of the   *)
(* LED strip (sparse pixel buffer, hue wheel, strip projection and the    *)
(* animation engines).                                                    *)
(*                                                                         *)
(* C arrays are 0-based, TLA+ sequences 1-based: the element the code     *)
(* calls buf[i] is buf[i + 1] here.  Channel indices R, G, B are shifted  *)
(* the same way.                                                          *)
(***************************************************************************)
EXTENDS Integers, Sequences, FiniteSets, TLC

VARIABLES
    strip_size,   \* uint16_t strip_size (global)
    wiring,       \* build-time channel order <<WS2812_WIRING_RGB_0, _1, _2>>
    ms,           \* value ms_passed() returns (timer service)
    tx,           \* events handed to the ws2812 driver by the last call
    call,         \* the last call made: [op, arg, ret, returned]
    pxbuf,        \* a caller-owned sparse pixel buffer
    hue,          \* color walked round the hue wheel by rgb_apply_fade
    fades,        \* number of rgb_apply_fade calls made on hue
    visited,      \* colors hue has held before the current one
    engine,       \* the effect the host loop is running
    inc,          \* rgb_apply_brightness_fade: static bool inc
    brightness,   \* rgb_apply_brightness_fade: static int brightness
    rgb_out,      \* strip_fade: static RGB_t rgb_out
    done,         \* strip_breathe: static bool done
    rainbow_rgb,  \* strip_rainbow: static RGB_t rgb
    rotate_rgb,   \* strip_rotate_rainbow: static RGB_t rgb
    rain_pxbuf,   \* strip_rain: static pxbuf pxbuf
    wait_until,   \* strip_rain: static uint16_t wait_until
    pos,          \* strip_override: static uint16_t pos
    ticks,        \* accepted strip_override ticks since the wipe began
    rain_hist,    \* strip_rain: max_drops of the effect, the color the newest
                  \* droplet was inserted with, the decay ticks it has had,
                  \* the position the last call inserted a droplet at
    array_i,      \* strip_override_array: static uint8_t i
    override_rgb, \* strip_override_rainbow: static RGB_t rgb
    breathe_rgb,  \* strip_breathe_rainbow: static RGB_t rgb
    eeprom_strip_size,  \* uint16_t eeprom_strip_size EEMEM
    cal,          \* strip_calibrate: where it stands, and its locals
    cal_hist,     \* strip_calibrate: what it has done since the commit, and
                  \* whether the button is down since a press seen in the loop
    breathe_i,    \* strip_breathe_array: static uint8_t i
    breath_hist   \* strip_breathe_array: the size of the list the host hands
                  \* over, the breaths completed

vars == <<strip_size, wiring, ms, tx, call, pxbuf, hue, fades, visited,
          engine, inc, brightness, rgb_out, done, rainbow_rgb, rotate_rgb,
          rain_pxbuf, wait_until, pos, ticks, rain_hist, array_i,
          override_rgb, breathe_rgb, eeprom_strip_size, cal, cal_hist,
          breathe_i, breath_hist>>

---------------------------------------------------------------------------
(* Bounds of the model *)

MaxPos == 3          \* pixel positions of a caller-owned buffer are 0..MaxPos
MaxStrip == 2        \* short strips are 0..MaxStrip pixels long
MaxMs == 2           \* timer readings 0..MaxMs (and the ones round the dwell)
MaxFades == 770      \* rgb_apply_fade calls made on the hue wheel walk
MaxEmit == 260       \* pixels followed through a projection loop
MaxColors == 3       \* colors handed to strip_distribute_rgb
MaxFine == 2         \* button presses followed beyond a filled length of 255
MaxBreaths == 4      \* breaths of strip_breathe_array followed

(* Program constants *)

R == 1
G == 2
B == 3
U8 == 256
U16 == 65536
WheelPeriod == 765
BreatheDwell == 2000
CommitHold == 1000
Blinks == 3

off == <<0, 0, 0>>

---------------------------------------------------------------------------
(* Sparse pixel buffer *)

pxl(p, rgb) == [pos |-> p, rgb |-> rgb]

pxbuf_init == [size |-> 0, buf |-> <<>>]

\* the shift loop of pxbuf_insert: the pixels from index i on move up by one
InsertShift(b, i, p, rgb) ==
    [size |-> (b.size + 1) % U16,
     buf  |-> [j \in 1..(b.size + 1) |->
                  IF j - 1 > i THEN b.buf[j - 1]
                  ELSE IF j - 1 = i THEN pxl(p, rgb)
                  ELSE b.buf[j]]]

RECURSIVE InsertScan(_, _, _, _)
InsertScan(b, i, p, rgb) ==
    IF i >= b.size
    THEN [size |-> (b.size + 1) % U16, buf |-> Append(b.buf, pxl(p, rgb))]
    ELSE IF b.buf[i + 1].pos = p
         THEN [b EXCEPT !.buf[i + 1].rgb = rgb]
         ELSE IF b.buf[i + 1].pos > p
              THEN InsertShift(b, i, p, rgb)
              ELSE InsertScan(b, i + 1, p, rgb)

pxbuf_insert_append(b, p, rgb) ==
    [size |-> (b.size + 1) % U16, buf |-> Append(b.buf, pxl(p, rgb))]

pxbuf_insert_noupsert(b, p, rgb) ==
    IF \E i \in 1..b.size : b.buf[i].pos = p
    THEN b
    ELSE IF b.size = 0 THEN [size |-> 1, buf |-> <<pxl(p, rgb)>>]
         ELSE InsertScan(b, 0, p, rgb)

pxbuf_insert(b, p, rgb) ==
    IF b.size = 0
    THEN [size |-> 1, buf |-> <<pxl(p, rgb)>>]
    ELSE InsertScan(b, 0, p, rgb)

RECURSIVE ExistsScan(_, _, _)
ExistsScan(b, i, p) ==
    IF i >= b.size THEN FALSE
    ELSE IF b.buf[i + 1].pos = p THEN TRUE
         ELSE IF b.buf[i + 1].pos > p THEN FALSE
              ELSE ExistsScan(b, i + 1, p)

pxbuf_exists(b, p) == ExistsScan(b, 0, p)

pxbuf_remove_last(b, index) ==
    IF b.size = 1 THEN pxbuf_init
    ELSE [size |-> b.size - 1, buf |-> SubSeq(b.buf, 1, b.size - 1)]

\* called with a non-empty buffer: size-- leaves size in 0..65534
pxbuf_remove(b, index) ==
    LET n == (b.size - 1) % U16
    IN  IF n = 0
        THEN pxbuf_init
        ELSE [size |-> n,
              buf  |-> [j \in 1..n |->
                           IF j - 1 >= index THEN b.buf[j + 1] ELSE b.buf[j]]]

\* pxbuf_remove called with an empty buffer: size-- wraps to 65535, which
\* is not 0, so the copy loop runs from index to 65534 over storage the
\* buffer does not own (buf is NULL) and realloc is asked for 65535 pixels.
\* What the stray copies hit is not defined: size is what the decrement
\* left or what a stray copy made of it, and the call may not come back.
\* No pixel of the result is one the caller stored.
pxbuf_remove_empty(b, index, size, returned) ==
    [buf |-> [size |-> size, buf |-> <<>>], returned |-> returned]

\* the sizes followed: the one the decrement leaves, and small ones
UnderflowSizes == {(0 - 1) % U16} \cup (0..1)

RECURSIVE RemoveAtScan(_, _, _)
RemoveAtScan(b, i, p) ==
    IF i >= b.size THEN [ret |-> FALSE, buf |-> b]
    ELSE IF b.buf[i + 1].pos = p
         THEN [ret |-> TRUE, buf |-> pxbuf_remove(b, i)]
         ELSE IF b.buf[i + 1].pos > p
              THEN [ret |-> FALSE, buf |-> b]
              ELSE RemoveAtScan(b, i + 1, p)

pxbuf_remove_at(b, p) == RemoveAtScan(b, 0, p)

---------------------------------------------------------------------------
(* Colors *)

\* round() of brightness/255 * channel, halves away from zero
ScaleChannel(c, bright) == (2 * bright * c + 255) \div 510

rgb_apply_brightness(rgb, bright) ==
    IF bright < 255
    THEN <<ScaleChannel(rgb[R], bright), ScaleChannel(rgb[G], bright),
           ScaleChannel(rgb[B], bright)>>
    ELSE rgb

\* FadePair leaving the third channel as it is when the walk moves on
FadePair_keepthird(rgb, step, dn, up, third) ==
    LET tmp == (rgb[dn] - step) % U8
    IN  IF tmp > rgb[dn]
        THEN [rgb EXCEPT ![dn] = 0, ![up] = tmp]
        ELSE [rgb EXCEPT ![dn] = tmp, ![up] = (rgb[up] + step) % U8]

\* one branch of rgb_apply_fade: channel dn falls, channel up rises; when the
\* uint8_t subtraction wraps (tmp > rgb[dn]) the walk moves on to the next pair
FadePair(rgb, step, dn, up, third) ==
    LET tmp == (rgb[dn] - step) % U8
    IN  IF tmp > rgb[dn]
        THEN [rgb EXCEPT ![dn] = 0, ![up] = tmp, ![third] = 255 - tmp]
        ELSE [rgb EXCEPT ![dn] = tmp, ![up] = (rgb[up] + step) % U8]

FadeFrom(rgb, step, r2g) ==
    IF r2g THEN FadePair(rgb, step, R, G, B)
    ELSE IF rgb[G] > 0 THEN FadePair(rgb, step, G, B, R)
         ELSE FadePair(rgb, step, B, R, G)

rgb_apply_fade_r2g(rgb, step_size) ==
    LET c == IF rgb[R] # 0 /\ rgb[G] # 0 /\ rgb[B] # 0 THEN <<255, 0, 0>> ELSE rgb
        step == IF step_size = 0 THEN 1 ELSE step_size
    IN  FadeFrom(c, step, c[G] <= 255 /\ c[B] = 0)

\* rgb_apply_fade without the test for three nonzero channels
rgb_apply_fade_noreset(rgb, step_size) ==
    LET step == IF step_size = 0 THEN 1 ELSE step_size
    IN  FadeFrom(rgb, step, rgb[G] < 255 /\ rgb[B] = 0)

rgb_apply_fade(rgb, step_size) ==
    LET c == IF rgb[R] # 0 /\ rgb[G] # 0 /\ rgb[B] # 0 THEN <<255, 0, 0>> ELSE rgb
        step == IF step_size = 0 THEN 1 ELSE step_size
    IN  FadeFrom(c, step, c[G] < 255 /\ c[B] = 0)

---------------------------------------------------------------------------
(* Strip projection.  The ws2812 driver is seen through the calls made to  *)
(* it: ws2812_prep_tx(), ws2812_tx_byte(v), ws2812_end_tx().               *)

Prep == [ev |-> "prep", v |-> 0]
End == [ev |-> "end", v |-> 0]
Byte(v) == [ev |-> "byte", v |-> v]

\* the three ws2812_tx_byte calls of one pixel, in the wiring order
PxBytes(rgb) == <<Byte(rgb[wiring[1]]), Byte(rgb[wiring[2]]), Byte(rgb[wiring[3]])>>

\* for (j = 0; j < n; j++) { three tx_byte calls of rgb }
EmitN(rgb, n) == [k \in 1..(3 * n) |-> PxBytes(rgb)[((k - 1) % 3) + 1]]

strip_apply_all(rgb) == <<Prep>> \o EmitN(rgb, strip_size) \o <<End>>

RECURSIVE SegLoop(_, _)
SegLoop(buf, i) ==
    IF i >= buf.n_substrps THEN <<>>
    ELSE EmitN(buf.substrps[i + 1].rgb, buf.substrps[i + 1].length)
             \o SegLoop(buf, i + 1)

RECURSIVE SegLoopCapped(_, _, _)
SegLoopCapped(buf, i, room) ==
    IF i >= buf.n_substrps THEN <<>>
    ELSE LET n == IF buf.substrps[i + 1].length < room
                  THEN buf.substrps[i + 1].length ELSE room
         IN  EmitN(buf.substrps[i + 1].rgb, n) \o SegLoopCapped(buf, i + 1, room - n)

strip_apply_substrpbuf_capped(buf) ==
    <<Prep>> \o SegLoopCapped(buf, 0, strip_size) \o <<End>>

strip_apply_substrpbuf(buf) == <<Prep>> \o SegLoop(buf, 0) \o <<End>>

\* the buffer strip_distribute_rgb builds, with the remainder left out
DistributeBuf_noremainder(rgb, size) ==
    [n_substrps |-> size,
     substrps   |-> [i \in 1..size |->
                        [length |-> strip_size \div size, rgb |-> rgb[i]]]]

\* the buffer strip_distribute_rgb builds from the first size entries of rgb
\* (size >= 1: the division is by size)
DistributeBuf(rgb, size) ==
    [n_substrps |-> size,
     substrps   |-> [i \in 1..size |->
                        [length |-> IF i - 1 = size - 1
                                    THEN ((strip_size \div size)
                                              + (strip_size % size)) % U16
                                    ELSE strip_size \div size,
                         rgb    |-> rgb[i]]]]

strip_distribute_rgb(rgb, size) == strip_apply_substrpbuf(DistributeBuf(rgb, size))

\* for (uint8_t i = 0; i < strip_size; i++): the value of i in the k-th pass
\* of the loop (k = 0, 1, ...) is k mod 256.  The loop is followed for at
\* most fuel passes; it is left at the first pass whose test i < strip_size
\* fails, and returned tells whether there is one.
RGBbufLoop(buf, fuel) ==
    LET i(k) == k % U8
        exits == {k \in 0..fuel : ~(i(k) < strip_size)}
        returned == exits # {}
        n == IF returned THEN CHOOSE k \in exits : \A l \in exits : k <= l
             ELSE fuel
    IN  [tx |-> [j \in 1..(3 * n) |->
                    PxBytes(buf[i((j - 1) \div 3) + 1])[((j - 1) % 3) + 1]]
                \o (IF returned THEN <<End>> ELSE <<>>),
         returned |-> returned]

strip_apply_RGBbuf(buf) ==
    LET r == RGBbufLoop(buf, MaxEmit)
    IN  [tx |-> <<Prep>> \o r.tx, returned |-> r.returned]

\* the else branch of the loop of strip_apply_pxbuf, taken n times running
Blank(n) == [k \in 1..(3 * n) |-> Byte(0)]

\* the loop of strip_apply_pxbuf from position i on with the cursor at px_i.
\* The test i == buf[px_i].pos next succeeds when i reaches that position,
\* which it does if the position lies in i..strip_size-1; till then, or for
\* the rest of the strip if it never does, the else branch is taken.
RECURSIVE PxLoop(_, _, _)
PxLoop(b, i, px_i) ==
    IF i >= strip_size THEN <<>>
    ELSE IF px_i < b.size /\ b.buf[px_i + 1].pos >= i
                          /\ b.buf[px_i + 1].pos < strip_size
         THEN Blank(b.buf[px_i + 1].pos - i) \o PxBytes(b.buf[px_i + 1].rgb)
                  \o PxLoop(b, b.buf[px_i + 1].pos + 1, px_i + 1)
         ELSE Blank(strip_size - i)

strip_apply_pxbuf_emptynoop(b) ==
    IF b.size = 0 THEN <<>> ELSE <<Prep>> \o PxLoop(b, 0, 0) \o <<End>>

strip_apply_pxbuf(b) ==
    IF b.size = 0
    THEN strip_apply_all(off)
    ELSE <<Prep>> \o PxLoop(b, 0, 0) \o <<End>>

---------------------------------------------------------------------------
(* Animation engines.  Each operator gives the effect of one call in the   *)
(* current state: the new values of the statics the function owns, the     *)
(* driver calls it makes (tx), whether it reset the timer, and what it     *)
(* returns.  ms_passed() is read as ms throughout one call.                *)

\* rgb_apply_brightness_fade with the falling branch left unclamped
rgb_apply_brightness_fade_noclamp(rgb_in, step_size, start) ==
    LET inc0 == IF start THEN TRUE ELSE inc
        b0 == IF start THEN 0 ELSE brightness
        b1 == IF inc0
              THEN (IF b0 + step_size >= 255 THEN 255 ELSE b0 + step_size)
              ELSE (IF b0 - step_size < 0 THEN step_size - b0 ELSE b0 - step_size)
        inc1 == IF inc0 THEN b1 < 255 ELSE b1 = 0
    IN  [inc |-> inc1, brightness |-> b1,
         rgb_out |-> rgb_apply_brightness(rgb_in, b1), ret |-> b1 = 0]

\* rgb_apply_brightness_fade on the statics inc and brightness
rgb_apply_brightness_fade(rgb_in, step_size, start) ==
    LET inc0 == IF start THEN TRUE ELSE inc
        b0 == IF start THEN 0 ELSE brightness
        b1 == IF inc0
              THEN (IF b0 + step_size >= 255 THEN 255 ELSE b0 + step_size)
              ELSE (IF b0 - step_size < 0 THEN 0 ELSE b0 - step_size)
        inc1 == IF inc0 THEN b1 < 255 ELSE b1 = 0
    IN  [inc |-> inc1, brightness |-> b1,
         rgb_out |-> rgb_apply_brightness(rgb_in, b1), ret |-> b1 = 0]

\* strip_fade handing start on as false
strip_fade_nostart(rgb, delay_ms, step_size, start) ==
    IF ms <= delay_ms
    THEN [inc |-> inc, brightness |-> brightness, rgb_out |-> rgb_out,
          tx |-> <<>>, reset |-> FALSE, ret |-> FALSE]
    ELSE LET r == rgb_apply_brightness_fade(rgb, step_size, FALSE)
         IN  [inc |-> r.inc, brightness |-> r.brightness, rgb_out |-> r.rgb_out,
              tx |-> strip_apply_all(r.rgb_out), reset |-> TRUE, ret |-> r.ret]

strip_fade(rgb, delay_ms, step_size, start) ==
    IF ms <= delay_ms
    THEN [inc |-> inc, brightness |-> brightness, rgb_out |-> rgb_out,
          tx |-> <<>>, reset |-> FALSE, ret |-> FALSE]
    ELSE LET r == rgb_apply_brightness_fade(rgb, step_size, start)
         IN  [inc |-> r.inc, brightness |-> r.brightness, rgb_out |-> r.rgb_out,
              tx |-> strip_apply_all(r.rgb_out), reset |-> TRUE, ret |-> r.ret]

\* strip_breathe with a dwell that ends one millisecond early
strip_breathe_shortdwell(rgb, delay_ms, step_size) ==
    IF done /\ ms < BreatheDwell - 1
    THEN [inc |-> inc, brightness |-> brightness, rgb_out |-> rgb_out,
          tx |-> <<>>, reset |-> FALSE, ret |-> FALSE, done |-> done]
    ELSE LET r == strip_fade(rgb, delay_ms, step_size, FALSE)
         IN  [inc |-> r.inc, brightness |-> r.brightness, rgb_out |-> r.rgb_out,
              tx |-> r.tx, reset |-> r.reset, ret |-> r.ret, done |-> r.ret]

strip_breathe(rgb, delay_ms, step_size) ==
    IF done /\ ms < BreatheDwell
    THEN [inc |-> inc, brightness |-> brightness, rgb_out |-> rgb_out,
          tx |-> <<>>, reset |-> FALSE, ret |-> FALSE, done |-> done]
    ELSE LET r == strip_fade(rgb, delay_ms, step_size, FALSE)
         IN  [inc |-> r.inc, brightness |-> r.brightness, rgb_out |-> r.rgb_out,
              tx |-> r.tx, reset |-> r.reset, ret |-> r.ret, done |-> r.ret]

strip_rainbow_scalestored(step_size, delay, bright) ==
    IF ms < delay
    THEN [rgb |-> rainbow_rgb, tx |-> <<>>, reset |-> FALSE]
    ELSE LET c == rgb_apply_brightness(rgb_apply_fade(rainbow_rgb, step_size), bright)
         IN  [rgb |-> c, tx |-> strip_apply_all(c), reset |-> TRUE]

strip_rainbow(step_size, delay, bright) ==
    IF ms < delay
    THEN [rgb |-> rainbow_rgb, tx |-> <<>>, reset |-> FALSE]
    ELSE LET c == rgb_apply_fade(rainbow_rgb, step_size)
         IN  [rgb |-> c,
              tx |-> strip_apply_all(IF bright < 255
                                     THEN rgb_apply_brightness(c, bright) ELSE c),
              reset |-> TRUE]

\* the color of strip_scroll_rgb with the second segment begun at 256
ScrollColor_from256(val) ==
    LET v == val % WheelPeriod
    IN  IF v < 255 + 1 THEN <<255 - v, v, 0>>
        ELSE IF v < (2 * 255) + 1 THEN <<0, 255 - (v - 256), v - 256>>
        ELSE <<v - 510, 0, 255 - (v - 510)>>

\* the color strip_scroll_rgb computes for val, before the brightness
ScrollColor(val) ==
    LET v == val % WheelPeriod
    IN  IF v < 255 + 1 THEN <<255 - v, v, 0>>
        ELSE IF v < (2 * 255) + 1 THEN <<0, 255 - (v - 255), v - 255>>
        ELSE <<v - 510, 0, 255 - (v - 510)>>

strip_scroll_rgb(val, bright) ==
    strip_apply_all(rgb_apply_brightness(ScrollColor(val), bright))

\* the loop of strip_rotate_rainbow: send tmp, then fade tmp
RECURSIVE RotateLoop(_, _, _)
RotateLoop(tmp, step_size, i) ==
    IF i >= strip_size THEN <<>>
    ELSE PxBytes(tmp) \o RotateLoop(rgb_apply_fade(tmp, step_size), step_size, i + 1)

\* the loop of strip_rotate_rainbow run on the stored color itself
RECURSIVE RotateLoopEnd(_, _, _)
RotateLoopEnd(tmp, step_size, i) ==
    IF i >= strip_size THEN tmp
    ELSE RotateLoopEnd(rgb_apply_fade(tmp, step_size), step_size, i + 1)

strip_rotate_rainbow_inplace(step_size, delay_ms) ==
    IF ms < delay_ms
    THEN [rgb |-> rotate_rgb, tx |-> <<>>, reset |-> FALSE]
    ELSE LET c == rgb_apply_fade(rotate_rgb, step_size)
         IN  [rgb |-> RotateLoopEnd(c, step_size, 0),
              tx |-> <<Prep>> \o RotateLoop(c, step_size, 0) \o <<End>>,
              reset |-> TRUE]

strip_rotate_rainbow(step_size, delay_ms) ==
    IF ms < delay_ms
    THEN [rgb |-> rotate_rgb, tx |-> <<>>, reset |-> FALSE]
    ELSE LET c == rgb_apply_fade(rotate_rgb, step_size)
         IN  [rgb |-> c, tx |-> <<Prep>> \o RotateLoop(c, step_size, 0) \o <<End>>,
              reset |-> TRUE]

\* the decrements of strip_rain with only the red one made
Decay_redonly(c) == <<IF c[R] # 0 THEN c[R] - 1 ELSE 0, c[G], c[B]>>

\* the three decrements of strip_rain
Decay(c) == <<IF c[R] # 0 THEN c[R] - 1 ELSE 0, IF c[G] # 0 THEN c[G] - 1 ELSE 0,
              IF c[B] # 0 THEN c[B] - 1 ELSE 0>>

\* the first loop of strip_rain from index i on: i moves on by one after a
\* removal as after a decay
RECURSIVE RainLoop(_, _, _)
RainLoop(b, i, t_passed) ==
    IF i >= b.size THEN b
    ELSE IF b.buf[i + 1].rgb = off
         THEN RainLoop(pxbuf_remove(b, i), i + 1, t_passed)
         ELSE IF t_passed
              THEN RainLoop([b EXCEPT !.buf[i + 1].rgb = Decay(@)], i + 1, t_passed)
              ELSE RainLoop(b, i + 1, t_passed)

\* strip_rain inserting without looking at max_drops
strip_rain_nocap(rgb, max_drops, min_t_appart, max_t_appart, delay, rand1, rand2) ==
    LET t_passed == ms >= wait_until
        b1 == RainLoop(rain_pxbuf, 0, t_passed)
        w1 == IF t_passed THEN (ms + delay) % U16 ELSE wait_until
        t_drop == ms >= (rand1 % ((max_t_appart - min_t_appart + 1) % U16)) + min_t_appart
        p == rand2 % strip_size
        drop == t_drop /\ ~pxbuf_exists(b1, p)
        b2 == IF drop THEN pxbuf_insert(b1, p, rgb) ELSE b1
        w2 == IF drop THEN (IF ms % U16 < w1 THEN w1 - (ms % U16) ELSE 0) ELSE w1
    IN  [pxbuf |-> b2, wait_until |-> w2, tx |-> strip_apply_pxbuf(b2),
         reset |-> drop]

\* rand1 and rand2 are what the two calls of rand() return
strip_rain(rgb, max_drops, min_t_appart, max_t_appart, delay, rand1, rand2) ==
    LET t_passed == ms >= wait_until
        b1 == RainLoop(rain_pxbuf, 0, t_passed)
        w1 == IF t_passed THEN (ms + delay) % U16 ELSE wait_until
        t_drop == ms >= (rand1 % ((max_t_appart - min_t_appart + 1) % U16)) + min_t_appart
        p == rand2 % strip_size
        drop == t_drop /\ b1.size < max_drops /\ ~pxbuf_exists(b1, p)
        b2 == IF drop THEN pxbuf_insert(b1, p, rgb) ELSE b1
        w2 == IF drop THEN (IF ms % U16 < w1 THEN w1 - (ms % U16) ELSE 0) ELSE w1
    IN  [pxbuf |-> b2, wait_until |-> w2, tx |-> strip_apply_pxbuf(b2),
         reset |-> drop]

strip_override_early(rgb, delay) ==
    IF pos + 1 >= strip_size
    THEN [pos |-> 0, tx |-> <<>>, reset |-> FALSE, ret |-> TRUE]
    ELSE IF ms < delay
         THEN [pos |-> pos, tx |-> <<>>, reset |-> FALSE, ret |-> FALSE]
         ELSE [pos |-> (pos + 1) % U16,
               tx |-> <<Prep>> \o EmitN(rgb, pos + 1) \o <<End>>,
               reset |-> TRUE, ret |-> FALSE]

strip_override(rgb, delay) ==
    IF pos = strip_size
    THEN [pos |-> 0, tx |-> <<>>, reset |-> FALSE, ret |-> TRUE]
    ELSE IF ms < delay
         THEN [pos |-> pos, tx |-> <<>>, reset |-> FALSE, ret |-> FALSE]
         ELSE [pos |-> (pos + 1) % U16,
               tx |-> <<Prep>> \o EmitN(rgb, pos + 1) \o <<End>>,
               reset |-> TRUE, ret |-> FALSE]

\* the entry points built on strip_override and strip_breathe; each gives
\* what the function it calls gives, and the new value of its own static
strip_override_array(rgb, size, delay) ==
    LET r == strip_override(rgb[array_i + 1], delay)
    IN  [pos |-> r.pos, tx |-> r.tx, reset |-> r.reset,
         i |-> IF r.ret THEN ((array_i + 1) % size) % U8 ELSE array_i]

strip_override_rainbow(delay, step_size) ==
    LET r == strip_override(override_rgb, delay)
    IN  [pos |-> r.pos, tx |-> r.tx, reset |-> r.reset,
         rgb |-> IF r.ret THEN rgb_apply_fade(override_rgb, step_size)
                 ELSE override_rgb]

\* strip_breathe_array moving on to the next color with every frame sent
strip_breathe_array_everyframe(rgb, size, delay_ms, step_size) ==
    LET r == strip_breathe(rgb[breathe_i + 1], delay_ms, step_size)
    IN  [inc |-> r.inc, brightness |-> r.brightness, rgb_out |-> r.rgb_out,
         done |-> r.done, tx |-> r.tx, reset |-> r.reset, ret |-> r.ret,
         i |-> IF r.tx # <<>> THEN ((breathe_i + 1) % size) % U8 ELSE breathe_i]

\* ret is what strip_breathe returned to it
strip_breathe_array(rgb, size, delay_ms, step_size) ==
    LET r == strip_breathe(rgb[breathe_i + 1], delay_ms, step_size)
    IN  [inc |-> r.inc, brightness |-> r.brightness, rgb_out |-> r.rgb_out,
         done |-> r.done, tx |-> r.tx, reset |-> r.reset, ret |-> r.ret,
         i |-> IF r.ret THEN ((breathe_i + 1) % size) % U8 ELSE breathe_i]

strip_breathe_rainbow(delay_ms, breath_step_size, rgb_step_size) ==
    LET r == strip_breathe(breathe_rgb, delay_ms, breath_step_size)
    IN  [inc |-> r.inc, brightness |-> r.brightness, rgb_out |-> r.rgb_out,
         done |-> r.done, tx |-> r.tx, reset |-> r.reset,
         rgb |-> IF r.ret THEN rgb_apply_fade(breathe_rgb, rgb_step_size)
                 ELSE breathe_rgb]

---------------------------------------------------------------------------
(* Values the state holds while a part of the program is not exercised: the *)
(* initial values of the C statics, and no call made yet.                   *)

hueVars == <<hue, fades, visited>>
waveVars == <<inc, brightness, rgb_out>>
calVars == <<eeprom_strip_size, cal, cal_hist>>
mixVars == <<array_i, override_rgb, breathe_rgb>>
breathVars == <<breathe_i, breath_hist>>
engVars == <<engine, inc, brightness, rgb_out, done, rainbow_rgb, rotate_rgb,
             rain_pxbuf, wait_until, pos, ticks, rain_hist, mixVars, calVars,
             breathVars>>

\* a call that came back; returned is FALSE for one that never does
Call(op, arg, ret) == [op |-> op, arg |-> arg, ret |-> ret, returned |-> TRUE]

NoCall == Call("none", <<>>, FALSE)

HueStart == <<255, 0, 0>>

HueInit == hue = HueStart /\ fades = 0 /\ visited = {}

StaticsInit ==
    /\ inc = TRUE
    /\ brightness = 0
    /\ rgb_out = off
    /\ done = FALSE
    /\ rainbow_rgb = <<255, 0, 0>>
    /\ rotate_rgb = <<255, 0, 0>>
    /\ rain_pxbuf = pxbuf_init
    /\ wait_until = 0
    /\ pos = 0
    /\ ticks = 0
    /\ array_i = 0
    /\ override_rgb = <<255, 0, 0>>
    /\ breathe_rgb = <<255, 0, 0>>
    /\ eeprom_strip_size = 0
    /\ breathe_i = 0

\* strip_rain, strip_calibrate and strip_breathe_array not called
NoRain == [max_drops |-> 0, pos |-> 0, rgb |-> off, decays |-> 0, fresh |-> {}]
NoCal == [pc |-> "idle", i |-> 0, length0 |-> 0, length2 |-> 0,
          prev_btn_state |-> FALSE, prev_pot |-> 0]
NoCalHist == [writes |-> 0, frames |-> <<>>, press |-> FALSE]
NoBreaths == [size |-> 0, breaths |-> 0]

IdleInit ==
    /\ rain_hist = NoRain
    /\ cal = NoCal
    /\ cal_hist = NoCalHist
    /\ breath_hist = NoBreaths

WiringOrders == {<<R, G, B>>, <<G, R, B>>, <<B, R, G>>, <<B, G, R>>}

---------------------------------------------------------------------------
(* SpecPxbuf: a caller working on one sparse pixel buffer *)

Positions == 0..MaxPos
PxColors == {<<255, 0, 0>>, <<0, 0, 255>>}

InitPxbuf ==
    /\ strip_size = 0
    /\ wiring = <<R, G, B>>
    /\ ms = 0
    /\ tx = <<>>
    /\ call = NoCall
    /\ pxbuf = pxbuf_init
    /\ HueInit
    /\ engine = "none"
    /\ StaticsInit
    /\ IdleInit

PxbufInsert(p, c) ==
    /\ pxbuf' = pxbuf_insert(pxbuf, p, c)
    /\ call' = Call("pxbuf_insert", [pos |-> p, rgb |-> c], TRUE)
    /\ UNCHANGED <<strip_size, wiring, ms, tx, hueVars, engVars>>

PxbufExists(p) ==
    /\ call' = Call("pxbuf_exists", [pos |-> p], pxbuf_exists(pxbuf, p))
    /\ UNCHANGED <<strip_size, wiring, ms, tx, pxbuf, hueVars, engVars>>

\* pxbuf_remove with a valid index
PxbufRemove(index) ==
    /\ index < pxbuf.size
    /\ pxbuf' = pxbuf_remove(pxbuf, index)
    /\ call' = Call("pxbuf_remove", [index |-> index], TRUE)
    /\ UNCHANGED <<strip_size, wiring, ms, tx, hueVars, engVars>>

PxbufRemoveAt(p) ==
    /\ LET r == pxbuf_remove_at(pxbuf, p)
       IN  /\ pxbuf' = r.buf
           /\ call' = Call("pxbuf_remove_at", [pos |-> p], r.ret)
    /\ UNCHANGED <<strip_size, wiring, ms, tx, hueVars, engVars>>

NextPxbuf ==
    \/ \E p \in Positions, c \in PxColors : PxbufInsert(p, c)
    \/ \E p \in Positions : PxbufExists(p)
    \/ \E i \in 0..MaxPos : PxbufRemove(i)
    \/ \E p \in Positions : PxbufRemoveAt(p)

SpecPxbuf == InitPxbuf /\ [][NextPxbuf]_vars

---------------------------------------------------------------------------
(* SpecPxbufAny: as SpecPxbuf, with pxbuf_remove also called on an empty   *)
(* buffer.  A buffer is followed while its size is the number of pixels    *)
(* stored and the last call has come back.                                 *)

Intact(b) == b.size = Len(b.buf)

PxbufRemoveEmpty(index, size, returned) ==
    /\ pxbuf.size = 0
    /\ LET r == pxbuf_remove_empty(pxbuf, index, size, returned)
       IN  /\ pxbuf' = r.buf
           /\ call' = [Call("pxbuf_remove", [index |-> index], TRUE)
                          EXCEPT !.returned = r.returned]
    /\ UNCHANGED <<strip_size, wiring, ms, tx, hueVars, engVars>>

Followed == Intact(pxbuf) /\ call.returned

NextPxbufAny ==
    \/ \E p \in Positions, c \in PxColors : Followed /\ PxbufInsert(p, c)
    \/ \E p \in Positions : Followed /\ PxbufExists(p)
    \/ \E i \in 0..MaxPos : Followed /\ PxbufRemove(i)
    \/ \E p \in Positions : Followed /\ PxbufRemoveAt(p)
    \/ \E i \in 0..MaxPos, s \in UnderflowSizes, ret \in BOOLEAN :
           Followed /\ PxbufRemoveEmpty(i, s, ret)

SpecPxbufAny == InitPxbuf /\ [][NextPxbufAny]_vars

\* C18: on an empty buffer pxbuf_remove and pxbuf_remove_at come back and
\* leave it empty with size 0, and pxbuf_exists returns false.
C18_EmptyRemoveSafe ==
    /\ [][(pxbuf = pxbuf_init /\ call'.op \in {"pxbuf_remove", "pxbuf_remove_at"})
          => pxbuf' = pxbuf_init /\ call'.returned]_vars
    /\ [][(pxbuf = pxbuf_init /\ call'.op = "pxbuf_exists")
          => ~call'.ret /\ pxbuf' = pxbuf_init /\ call'.returned]_vars

\* the two scanning routines are safe on an empty buffer
EmptyScansSafe ==
    [][(pxbuf = pxbuf_init /\ call'.op \in {"pxbuf_exists", "pxbuf_remove_at"})
          => ~call'.ret /\ pxbuf' = pxbuf_init /\ call'.returned]_vars

\* pxbuf_remove came back from an empty buffer leaving size at 65535
RemoveEmptyUnderflow ==
    /\ call.op = "pxbuf_remove"
    /\ call.returned
    /\ pxbuf.size = U16 - 1
    /\ pxbuf.buf = <<>>

\* what a buffer holds, read off its sequence without the scanning routines
Stored(b, p) == \E i \in 1..Len(b.buf) : b.buf[i].pos = p
Without(b, p) == SelectSeq(b.buf, LAMBDA x : x.pos # p)

\* C1: after any sequence of pxbuf_insert, pxbuf_remove (valid index) and
\* pxbuf_remove_at from pxbuf_init, the stored pixels are strictly sorted by
\* ascending position (so no position is stored twice), and size counts them.
C1_SortedUnique ==
    /\ pxbuf.size = Len(pxbuf.buf)
    /\ \A i \in 1..Len(pxbuf.buf) : \A j \in 1..Len(pxbuf.buf) :
           i < j => pxbuf.buf[i].pos < pxbuf.buf[j].pos

\* a pixel was just inserted between two stored ones
C1_Witness ==
    /\ call.op = "pxbuf_insert"
    /\ pxbuf.size >= 3
    /\ pxbuf.buf[2].pos = call.arg.pos

\* C2: after pxbuf_insert(pos, c), pxbuf_exists(pos) is true; a following
\* pxbuf_insert(pos, c2) leaves the length unchanged and the pixel stored at
\* pos, and only that pixel, has color c2.
C2_Upsert ==
    /\ [][(call.op = "pxbuf_insert" /\ call'.op = "pxbuf_exists"
             /\ call'.arg.pos = call.arg.pos) => call'.ret = TRUE]_vars
    /\ [][(call.op = "pxbuf_insert" /\ call'.op = "pxbuf_insert"
             /\ call'.arg.pos = call.arg.pos)
          => /\ pxbuf'.size = pxbuf.size
             /\ Len(pxbuf'.buf) = Len(pxbuf.buf)
             /\ \E i \in 1..Len(pxbuf'.buf) :
                    /\ pxbuf'.buf[i] = pxl(call'.arg.pos, call'.arg.rgb)
                    /\ \A j \in 1..Len(pxbuf'.buf) :
                           /\ pxbuf'.buf[j].pos = pxbuf.buf[j].pos
                           /\ j # i => pxbuf'.buf[j] = pxbuf.buf[j]]_vars
    /\ [](call.op = "pxbuf_insert" => Stored(pxbuf, call.arg.pos))

\* a stored pixel in the middle of the buffer was given another color
C2_Witness ==
    /\ call.op = "pxbuf_insert"
    /\ pxbuf.size >= 3
    /\ pxbuf.buf[2] = pxl(call.arg.pos, call.arg.rgb)
    /\ pxbuf.buf[1].rgb # call.arg.rgb

\* C3: pxbuf_remove_at(pos) on a position that is not stored returns false and
\* leaves the buffer unchanged; on a stored position it returns true, the
\* length drops by exactly 1, the pixel at pos is gone and every other pixel
\* keeps its position, color and relative order.
C3_RemoveAt ==
    [][call'.op = "pxbuf_remove_at" =>
         IF Stored(pxbuf, call'.arg.pos)
         THEN /\ call'.ret = TRUE
              /\ pxbuf'.size = pxbuf.size - 1
              /\ ~Stored(pxbuf', call'.arg.pos)
              /\ pxbuf'.buf = Without(pxbuf, call'.arg.pos)
         ELSE /\ call'.ret = FALSE
              /\ pxbuf' = pxbuf]_vars

\* a pixel was removed by position and pixels remain on both sides of it
C3_Witness ==
    /\ call.op = "pxbuf_remove_at"
    /\ call.ret = TRUE
    /\ pxbuf.size >= 2
    /\ pxbuf.buf[1].pos < call.arg.pos
    /\ pxbuf.buf[pxbuf.size].pos > call.arg.pos

---------------------------------------------------------------------------
(* SpecHue: rgb_apply_fade called over and over with step size 1 on a color *)
(* that starts at pure red                                                   *)

InitHue ==
    /\ strip_size = 0
    /\ wiring = <<R, G, B>>
    /\ ms = 0
    /\ tx = <<>>
    /\ call = NoCall
    /\ pxbuf = pxbuf_init
    /\ HueInit
    /\ engine = "none"
    /\ StaticsInit
    /\ IdleInit

FadeStep ==
    /\ fades < MaxFades
    /\ hue' = rgb_apply_fade(hue, 1)
    /\ fades' = fades + 1
    /\ visited' = visited \cup {hue}
    /\ call' = Call("rgb_apply_fade", [step_size |-> 1], TRUE)
    /\ UNCHANGED <<strip_size, wiring, ms, tx, pxbuf, engVars>>

NextHue == FadeStep

SpecHue == InitHue /\ [][NextHue]_vars

\* C4: from (255,0,0), 765 calls of rgb_apply_fade with step size 1 bring the
\* color back to (255,0,0), and the colors held before each of those calls
\* are pairwise distinct: no call before the 765th returns to a color already
\* held.
WheelPositions ==
    {<<255 - k, k, 0>> : k \in 0..254} \cup {<<0, 255 - k, k>> : k \in 0..254}
        \cup {<<k, 0, 255 - k>> : k \in 0..254}

C4_WheelPeriod ==
    /\ fades <= WheelPeriod => Cardinality(visited) = fades
    /\ fades < WheelPeriod => hue \notin visited
    /\ fades = WheelPeriod => hue = HueStart /\ visited = WheelPositions

\* the 765th call has been made
C4_Witness == fades = WheelPeriod /\ call.op = "rgb_apply_fade"

---------------------------------------------------------------------------
(* SpecFadeAny: rgb_apply_fade called once on a color that need not be a    *)
(* hue-wheel position                                                       *)

ChannelValues == {0, 1, 100, 155, 255}
AnyColors == {<<r, g, b>> : r \in ChannelValues, g \in ChannelValues,
                            b \in ChannelValues}
AnySteps == {0, 1, 85, 255}

InitFadeAny ==
    /\ strip_size = 0
    /\ wiring = <<R, G, B>>
    /\ ms = 0
    /\ tx = <<>>
    /\ call = NoCall
    /\ pxbuf = pxbuf_init
    /\ hue \in AnyColors
    /\ fades = 0
    /\ visited = {}
    /\ engine = "none"
    /\ StaticsInit
    /\ IdleInit

\* visited keeps the color the call was made on
FadeAny(step_size) ==
    /\ fades = 0
    /\ hue' = rgb_apply_fade(hue, step_size)
    /\ fades' = 1
    /\ visited' = {hue}
    /\ call' = Call("rgb_apply_fade", [step_size |-> step_size], TRUE)
    /\ UNCHANGED <<strip_size, wiring, ms, tx, pxbuf, engVars>>

NextFadeAny == \E st \in AnySteps : FadeAny(st)

SpecFadeAny == InitFadeAny /\ [][NextFadeAny]_vars

\* a hue-wheel position: one channel 0 and the other two summing to 255
IsWheel(c) ==
    \/ c[R] = 0 /\ c[G] + c[B] = 255
    \/ c[G] = 0 /\ c[R] + c[B] = 255
    \/ c[B] = 0 /\ c[R] + c[G] = 255

AllNonzero(c) == c[R] # 0 /\ c[G] # 0 /\ c[B] # 0

\* the position s steps (one for s = 0) from pure red
StepFromRed(s) == LET st == IF s = 0 THEN 1 ELSE s IN <<255 - st, st, 0>>

\* C20 as claimed: for every input color that is not a hue-wheel position
\* the color after rgb_apply_fade is a hue-wheel position, and when all
\* three channels are nonzero it is the result of the same step from
\* (255,0,0).
C20_InvalidCorrected ==
    fades = 1 =>
        \A c \in visited :
            ~IsWheel(c) => /\ IsWheel(hue)
                           /\ AllNonzero(c) => hue = StepFromRed(call.arg.step_size)

\* C20 as amended: rgb_apply_fade detects an invalid color only when all
\* three channels are nonzero; then the color after the call is the result
\* of the same step from (255,0,0), a hue-wheel position.  An invalid color
\* with a channel at 0 is not detected: it is stepped as it stands, and where
\* red falls and green rises without wrapping, the sum of the two is kept
\* and the color after the call is no hue-wheel position either.
C20_ThreeNonzeroReset ==
    fades = 1 =>
        \A c \in visited :
            LET st == IF call.arg.step_size = 0 THEN 1 ELSE call.arg.step_size
            IN  /\ AllNonzero(c) => /\ hue = StepFromRed(call.arg.step_size)
                                    /\ IsWheel(hue)
                /\ (~IsWheel(c) /\ c[B] = 0 /\ c[G] < 255 /\ c[R] >= st
                        /\ c[G] + st <= 255)
                       => hue = <<c[R] - st, c[G] + st, 0>> /\ ~IsWheel(hue)

\* a color with three nonzero channels was reset and stepped
C20_Witness ==
    /\ fades = 1
    /\ call.op = "rgb_apply_fade"
    /\ call.arg.step_size = 85
    /\ visited = {<<100, 155, 1>>}
    /\ hue = <<170, 85, 0>>

\* an invalid color with blue at 0 was stepped and is still invalid
C20_WitnessUndetected ==
    /\ fades = 1
    /\ call.arg.step_size = 1
    /\ visited = {<<100, 100, 0>>}
    /\ hue = <<99, 101, 0>>

---------------------------------------------------------------------------
(* SpecWave: rgb_apply_brightness_fade called over and over with one step   *)
(* size, the first time with start set                                      *)

AllWaveSteps == 1..255

InitWave ==
    /\ strip_size = 0
    /\ wiring = <<R, G, B>>
    /\ ms = 0
    /\ tx = <<>>
    /\ call = NoCall
    /\ pxbuf = pxbuf_init
    /\ HueInit
    /\ engine = "none"
    /\ StaticsInit
    /\ IdleInit

\* rgb_out is the caller's array the scaled color is written to
RgbApplyBrightnessFade(rgb_in, step_size, start) ==
    /\ LET r == rgb_apply_brightness_fade(rgb_in, step_size, start)
       IN  /\ inc' = r.inc
           /\ brightness' = r.brightness
           /\ rgb_out' = r.rgb_out
           /\ call' = Call("rgb_apply_brightness_fade",
                           [rgb_in |-> rgb_in, step_size |-> step_size,
                            start |-> start], r.ret)
    /\ UNCHANGED <<strip_size, wiring, ms, tx, pxbuf, hueVars, engine, done,
                   rainbow_rgb, rotate_rgb, rain_pxbuf, wait_until, pos, ticks,
                   rain_hist, mixVars, calVars, breathVars>>

\* the first call, with start set
WaveStart(rgb_in, step_size) ==
    /\ call = NoCall
    /\ RgbApplyBrightnessFade(rgb_in, step_size, TRUE)

\* a later call with the same step size, with or without start
WaveStep(rgb_in, start) ==
    /\ call.op = "rgb_apply_brightness_fade"
    /\ RgbApplyBrightnessFade(rgb_in, call.arg.step_size, start)

NextWave ==
    \/ \E c \in PxColors, st \in AllWaveSteps : WaveStart(c, st)
    \/ \E c \in PxColors, start \in BOOLEAN : WaveStep(c, start)

SpecWave == InitWave /\ [][NextWave]_vars

Min2(a, b) == IF a < b THEN a ELSE b
Max2(a, b) == IF a > b THEN a ELSE b

\* C12: rgb_apply_brightness_fade returns true exactly on the calls after
\* which brightness is 0.  With a constant step s in 1..255, from a call with
\* start set, brightness rises by s per call (so it is a multiple of s while
\* rising) until it is clamped to exactly 255, then falls by s per call (so
\* it is 255 less a multiple of s while falling) until it is clamped to
\* exactly 0; the direction flips only at 0 and 255; true is returned only on
\* the call that completes the descent.
C12_BrightnessWave ==
    /\ [](call.op = "rgb_apply_brightness_fade" =>
             /\ call.ret = (brightness = 0)
             /\ brightness \in 0..255
             /\ inc => brightness < 255 /\ brightness % call.arg.step_size = 0
             /\ ~inc => brightness > 0
                          /\ (255 - brightness) % call.arg.step_size = 0
             /\ rgb_out = rgb_apply_brightness(call.arg.rgb_in, brightness))
    /\ [][(call.op = "rgb_apply_brightness_fade"
              /\ call'.op = "rgb_apply_brightness_fade")
          => LET s == call'.arg.step_size
             IN  IF call'.arg.start
                 THEN brightness' = Min2(s, 255) /\ ~call'.ret
                 ELSE /\ brightness' = IF inc THEN Min2(brightness + s, 255)
                                       ELSE Max2(brightness - s, 0)
                      /\ inc' # inc => brightness' \in {0, 255}
                      /\ call'.ret => ~inc /\ brightness' = 0 /\ inc']_vars

\* a cycle with a step that divides neither 255 nor the way down has been
\* completed: both clamps were needed
C12_Witness ==
    /\ call.op = "rgb_apply_brightness_fade"
    /\ call.arg.step_size = 100
    /\ ~call.arg.start
    /\ call.ret
    /\ brightness = 0
    /\ inc

---------------------------------------------------------------------------
(* SpecProj: a caller projecting colors, segment buffers, dense arrays and *)
(* sparse pixel buffers onto strips of several lengths                     *)

\* short strips, and the shortest strip a uint8_t cannot count
StripSizes == (0..MaxStrip) \cup {U8}

\* segments: empty, one pixel, or as long as the longest short strip
Segments == [length : {0, 1, MaxStrip}, rgb : PxColors]

SegBuf(segs) == [n_substrps |-> Len(segs), substrps |-> segs]

\* the buffer strip_calibrate starts from: 0 white, 1 green, 255 black
CalibrateBuf ==
    SegBuf(<<[length |-> 0, rgb |-> <<255, 255, 255>>],
             [length |-> 1, rgb |-> <<0, 255, 0>>],
             [length |-> 255, rgb |-> <<0, 0, 0>>]>>)

\* buffers of up to two segments, and the calibration buffer
SegBufs ==
    {SegBuf(segs) : segs \in {<<>>} \cup [1..1 -> Segments] \cup [1..2 -> Segments]}
        \cup {CalibrateBuf}

\* dense arrays of strip_size entries: one color, or two colors in turn
DenseBufs ==
    {[i \in 1..strip_size |-> IF i % 2 = 1 THEN c ELSE d] :
         c \in PxColors, d \in PxColors}

\* the sorted buffer holding the pixels of f, a function from positions to colors
RECURSIVE SortedSeq(_, _)
SortedSeq(f, S) ==
    IF S = {} THEN <<>>
    ELSE LET m == CHOOSE x \in S : \A y \in S : x <= y
         IN  <<pxl(m, f[m])>> \o SortedSeq(f, S \ {m})

SortedBuf(f) == [size |-> Cardinality(DOMAIN f), buf |-> SortedSeq(f, DOMAIN f)]

\* positions on the short strips and one beyond the longest of them
ProjPositions == 0..MaxStrip

SortedBufs ==
    {SortedBuf(f) : f \in UNION {[S -> PxColors] : S \in SUBSET ProjPositions}}

\* arrays of one to MaxColors colors
ColorArrays == UNION {[1..n -> PxColors] : n \in 1..MaxColors}

InitProj ==
    /\ strip_size \in StripSizes
    /\ wiring \in WiringOrders
    /\ ms = 0
    /\ tx = <<>>
    /\ call = NoCall
    /\ pxbuf = pxbuf_init
    /\ HueInit
    /\ engine = "none"
    /\ StaticsInit
    /\ IdleInit

ApplyAll(rgb) ==
    /\ tx' = strip_apply_all(rgb)
    /\ call' = Call("strip_apply_all", [rgb |-> rgb], TRUE)
    /\ UNCHANGED <<strip_size, wiring, ms, pxbuf, hueVars, engVars>>

ApplySubstrpbuf(buf) ==
    /\ tx' = strip_apply_substrpbuf(buf)
    /\ call' = Call("strip_apply_substrpbuf", [buf |-> buf], TRUE)
    /\ UNCHANGED <<strip_size, wiring, ms, pxbuf, hueVars, engVars>>

ApplyRGBbuf(buf) ==
    /\ LET r == strip_apply_RGBbuf(buf)
       IN  /\ tx' = r.tx
           /\ call' = [Call("strip_apply_RGBbuf", [buf |-> buf], TRUE)
                          EXCEPT !.returned = r.returned]
    /\ UNCHANGED <<strip_size, wiring, ms, pxbuf, hueVars, engVars>>

ApplyPxbuf(b) ==
    /\ tx' = strip_apply_pxbuf(b)
    /\ call' = Call("strip_apply_pxbuf", [buf |-> b], TRUE)
    /\ UNCHANGED <<strip_size, wiring, ms, pxbuf, hueVars, engVars>>

\* the call records the buffer that was built and handed on
DistributeRgb(rgb, size) ==
    /\ tx' = strip_distribute_rgb(rgb, size)
    /\ call' = Call("strip_distribute_rgb",
                    [rgb |-> rgb, size |-> size, buf |-> DistributeBuf(rgb, size)],
                    TRUE)
    /\ UNCHANGED <<strip_size, wiring, ms, pxbuf, hueVars, engVars>>

NextProj ==
    \/ \E c \in PxColors \cup {off} : ApplyAll(c)
    \/ \E rgb \in ColorArrays : DistributeRgb(rgb, Len(rgb))
    \/ \E buf \in SegBufs : ApplySubstrpbuf(buf)
    \/ \E buf \in DenseBufs : ApplyRGBbuf(buf)
    \/ \E b \in SortedBufs : ApplyPxbuf(b)

SpecProj == InitProj /\ [][NextProj]_vars

\* what a trace of driver calls holds
ByteCount(tr) == Cardinality({i \in 1..Len(tr) : tr[i].ev = "byte"})
PixelCount(tr) == ByteCount(tr) \div 3

RECURSIVE SumLengths(_, _)
SumLengths(buf, i) ==
    IF i >= buf.n_substrps THEN 0
    ELSE buf.substrps[i + 1].length + SumLengths(buf, i + 1)

\* C5 as claimed: strip_apply_substrpbuf never emits more pixels than
\* strip_size.
C5_NeverMoreThanStrip ==
    call.op = "strip_apply_substrpbuf" => PixelCount(tx) <= strip_size

\* C5 as amended: strip_apply_substrpbuf emits exactly as many pixels as the
\* segment lengths sum to, whatever strip_size is; it does not stop at the
\* physical strip length.
C5_EmitsAllSegments ==
    call.op = "strip_apply_substrpbuf"
        => /\ ByteCount(tx) = 3 * SumLengths(call.arg.buf, 0)
           /\ Len(tx) = ByteCount(tx) + 2

\* segments that overrun the strip were projected
C5_Witness ==
    /\ call.op = "strip_apply_substrpbuf"
    /\ strip_size > 0
    /\ SumLengths(call.arg.buf, 0) > strip_size
    /\ PixelCount(tx) > strip_size

\* C11: for strip_distribute_rgb with N >= 1 colors on a strip of L pixels the
\* buffer built has N segments, segments 0..N-2 are L div N long, the last is
\* (L div N) + (L mod N) long, segment i has color rgb[i], the lengths sum to
\* exactly L, and the frame sent has L pixels, each with its segment's color.
C11_Distribute ==
    call.op = "strip_distribute_rgb"
        => LET N == call.arg.size
               b == call.arg.buf
               q == strip_size \div N
           IN  /\ b.n_substrps = N
               /\ Len(b.substrps) = N
               /\ \A i \in 0..(N - 2) : b.substrps[i + 1].length = q
               /\ b.substrps[N].length = q + (strip_size % N)
               /\ \A i \in 0..(N - 1) : b.substrps[i + 1].rgb = call.arg.rgb[i + 1]
               /\ SumLengths(b, 0) = strip_size
               /\ Len(tx) = 3 * strip_size + 2
               /\ \A p \in 0..(strip_size - 1) :
                      LET i == IF p >= q * (N - 1) THEN N - 1 ELSE p \div q
                      IN  SubSeq(tx, 3 * p + 2, 3 * p + 4)
                              = PxBytes(call.arg.rgb[i + 1])

\* three colors were spread over a strip whose length three does not divide
C11_Witness ==
    /\ call.op = "strip_distribute_rgb"
    /\ call.arg.size = 3
    /\ strip_size % 3 # 0
    /\ strip_size \div 3 > 0
    /\ call.arg.buf.substrps[3].length > call.arg.buf.substrps[1].length
    /\ Len(tx) = 3 * strip_size + 2

\* more colors than pixels: all but the last segment are empty
C11_WitnessShort ==
    /\ call.op = "strip_distribute_rgb"
    /\ call.arg.size > strip_size
    /\ strip_size > 0
    /\ call.arg.buf.substrps[1].length = 0

\* one frame: a prep, then bytes only, then an end
OneFrame(tr) ==
    /\ Len(tr) >= 2
    /\ tr[1] = Prep
    /\ tr[Len(tr)] = End
    /\ \A i \in 2..(Len(tr) - 1) : tr[i].ev = "byte"

Projections ==
    {"strip_apply_all", "strip_apply_substrpbuf", "strip_apply_RGBbuf",
     "strip_apply_pxbuf"}

\* C9: every projection hands the driver exactly one frame: one prep, then
\* the bytes, then the matching end, and it comes back.
C9_OneFramePerProjection ==
    call.op \in Projections => call.returned /\ OneFrame(tx)

\* the projections whose loop counter is as wide as strip_size do bracket
\* their frame, on every strip size
ProjectionsBracketedButDense ==
    call.op \in Projections \ {"strip_apply_RGBbuf"} => call.returned /\ OneFrame(tx)

\* C17: strip_apply_RGBbuf comes back after emitting exactly strip_size
\* pixels, entries 0..strip_size-1 of the dense array in order, for every
\* strip size calibration can set, sizes of 256 and more included.
C17_RGBbufTerminates ==
    call.op = "strip_apply_RGBbuf"
        => /\ call.returned
           /\ Len(tx) = 3 * strip_size + 2
           /\ \A p \in 0..(strip_size - 1) :
                  SubSeq(tx, 3 * p + 2, 3 * p + 4) = PxBytes(call.arg.buf[p + 1])

\* on the strips a uint8_t can count, it does
RGBbufTerminatesBelow256 ==
    (call.op = "strip_apply_RGBbuf" /\ strip_size < U8)
        => /\ call.returned
           /\ Len(tx) = 3 * strip_size + 2
           /\ \A p \in 0..(strip_size - 1) :
                  SubSeq(tx, 3 * p + 2, 3 * p + 4) = PxBytes(call.arg.buf[p + 1])

\* on a strip of 256 pixels the loop was followed for MaxEmit passes, in
\* which it sent entry 0 a second time, and was not left
RGBbufRunsOn ==
    /\ call.op = "strip_apply_RGBbuf"
    /\ strip_size = U8
    /\ ~call.returned
    /\ Len(tx) = 3 * MaxEmit + 1
    /\ SubSeq(tx, 3 * U8 + 2, 3 * U8 + 4) = PxBytes(call.arg.buf[1])

\* the pixel a sorted buffer shows at position p
ColorAt(b, p) ==
    IF Stored(b, p)
    THEN (CHOOSE x \in {b.buf[i] : i \in 1..Len(b.buf)} : x.pos = p).rgb
    ELSE off

\* C10: for a sorted buffer strip_apply_pxbuf emits one frame of exactly
\* strip_size pixels; the pixel for position p has the buffer's color for p
\* if p is stored and is black otherwise; an empty buffer gives an all black
\* frame of strip_size pixels.
C10_SparseProjection ==
    call.op = "strip_apply_pxbuf"
        => /\ OneFrame(tx)
           /\ Len(tx) = 3 * strip_size + 2
           /\ \A p \in 0..(strip_size - 1) :
                  SubSeq(tx, 3 * p + 2, 3 * p + 4) = PxBytes(ColorAt(call.arg.buf, p))

\* a buffer with a gap and a pixel beyond the end of the strip was projected
C10_Witness ==
    /\ call.op = "strip_apply_pxbuf"
    /\ strip_size >= 2
    /\ ~Stored(call.arg.buf, 0)
    /\ \E p \in 1..(strip_size - 1) : Stored(call.arg.buf, p)
    /\ \E p \in ProjPositions : p >= strip_size /\ Stored(call.arg.buf, p)
    /\ Len(tx) = 3 * strip_size + 2

\* an empty buffer was projected on a strip that has pixels
C10_WitnessEmpty ==
    /\ call.op = "strip_apply_pxbuf"
    /\ call.arg.buf.size = 0
    /\ strip_size > 0
    /\ Len(tx) = 3 * strip_size + 2

---------------------------------------------------------------------------
(* SpecEngines: the host loop runs one effect, calling its entry point     *)
(* again and again while the timer runs                                    *)

Engines == {"fade", "breathe", "rainbow", "rotate", "rain", "override"}

\* timer readings: the first few, and the ones round the dwell of strip_breathe
TimePoints == (0..MaxMs) \cup {BreatheDwell - 1, BreatheDwell, BreatheDwell + 1}

Delays == {0, BreatheDwell}
WaveSteps == {100, 255}
HueSteps == {85}
Brightnesses == {128, 255}
RainColors == {<<1, 0, 0>>, <<2, 1, 0>>}
RainDrops == {1, MaxStrip}
RainGaps == {<<0, MaxMs>>}
RainDelays == {1}
RandValues == 0..MaxStrip

InitEngines ==
    /\ engine \in Engines
    /\ strip_size \in (IF engine = "rain" THEN 1..MaxStrip ELSE 0..MaxStrip)
    /\ wiring = <<G, R, B>>
    /\ ms = 0
    /\ tx = <<>>
    /\ call = NoCall
    /\ pxbuf = pxbuf_init
    /\ HueInit
    /\ StaticsInit
    /\ rain_hist \in (IF engine = "rain"
                      THEN {[NoRain EXCEPT !.max_drops = n] : n \in RainDrops}
                      ELSE {NoRain})
    /\ cal = NoCal
    /\ cal_hist = NoCalHist
    /\ breath_hist = NoBreaths

\* time passes between two calls
Tick ==
    /\ \E t \in TimePoints : t > ms /\ ms' = t
    /\ call' = Call("tick", <<>>, FALSE)
    /\ UNCHANGED <<strip_size, wiring, tx, pxbuf, hueVars, engVars>>

Timer(reset) == IF reset THEN 0 ELSE ms

StripFade(rgb, delay_ms, step_size, start) ==
    /\ engine = "fade"
    /\ LET r == strip_fade(rgb, delay_ms, step_size, start)
       IN  /\ inc' = r.inc
           /\ brightness' = r.brightness
           /\ rgb_out' = r.rgb_out
           /\ tx' = r.tx
           /\ ms' = Timer(r.reset)
           /\ call' = Call("strip_fade", [rgb |-> rgb, delay |-> delay_ms,
                               step_size |-> step_size, start |-> start], r.ret)
    /\ UNCHANGED <<strip_size, wiring, pxbuf, hueVars, calVars, breathVars, mixVars, engine, done, rainbow_rgb,
                   rotate_rgb, rain_pxbuf, wait_until, pos, ticks,
                   rain_hist>>

StripBreathe(rgb, delay_ms, step_size) ==
    /\ engine = "breathe"
    /\ LET r == strip_breathe(rgb, delay_ms, step_size)
       IN  /\ inc' = r.inc
           /\ brightness' = r.brightness
           /\ rgb_out' = r.rgb_out
           /\ done' = r.done
           /\ tx' = r.tx
           /\ ms' = Timer(r.reset)
           /\ call' = Call("strip_breathe", [rgb |-> rgb, delay |-> delay_ms,
                               step_size |-> step_size], r.ret)
    /\ UNCHANGED <<strip_size, wiring, pxbuf, hueVars, calVars, breathVars, mixVars, engine, rainbow_rgb,
                   rotate_rgb, rain_pxbuf, wait_until, pos, ticks,
                   rain_hist>>

StripRainbow(step_size, delay, bright) ==
    /\ engine = "rainbow"
    /\ LET r == strip_rainbow(step_size, delay, bright)
       IN  /\ rainbow_rgb' = r.rgb
           /\ tx' = r.tx
           /\ ms' = Timer(r.reset)
           /\ call' = Call("strip_rainbow", [step_size |-> step_size, delay |-> delay,
                               brightness |-> bright], FALSE)
    /\ UNCHANGED <<strip_size, wiring, pxbuf, hueVars, calVars, breathVars, mixVars, engine, waveVars, done,
                   rotate_rgb, rain_pxbuf, wait_until, pos, ticks,
                   rain_hist>>

StripRotateRainbow(step_size, delay_ms) ==
    /\ engine = "rotate"
    /\ LET r == strip_rotate_rainbow(step_size, delay_ms)
       IN  /\ rotate_rgb' = r.rgb
           /\ tx' = r.tx
           /\ ms' = Timer(r.reset)
           /\ call' = Call("strip_rotate_rainbow",
                           [step_size |-> step_size, delay |-> delay_ms], FALSE)
    /\ UNCHANGED <<strip_size, wiring, pxbuf, hueVars, calVars, breathVars, mixVars, engine, waveVars, done,
                   rainbow_rgb, rain_pxbuf, wait_until, pos, ticks,
                   rain_hist>>

\* the host keeps max_drops fixed while the effect runs.  rain_hist follows
\* the newest droplet: a decay tick is a call that finds the decay interval
\* elapsed while that droplet is stored and not yet black
StripRain(rgb, max_drops, gap, delay, rand1, rand2) ==
    /\ engine = "rain"
    /\ max_drops = rain_hist.max_drops
    /\ LET r == strip_rain(rgb, max_drops, gap[1], gap[2], delay, rand1, rand2)
       IN  /\ rain_pxbuf' = r.pxbuf
           /\ rain_hist' =
                  IF r.reset
                  THEN [rain_hist EXCEPT !.pos = rand2 % strip_size, !.rgb = rgb,
                                         !.decays = 0]
                  ELSE IF /\ ms >= wait_until
                          /\ \E k \in 1..Len(rain_pxbuf.buf) :
                                 /\ rain_pxbuf.buf[k].pos = rain_hist.pos
                                 /\ rain_pxbuf.buf[k].rgb # off
                       THEN [rain_hist EXCEPT !.decays = @ + 1]
                       ELSE rain_hist
           /\ wait_until' = r.wait_until
           /\ tx' = r.tx
           /\ ms' = Timer(r.reset)
           /\ call' = Call("strip_rain", [rgb |-> rgb, max_drops |-> max_drops,
                               min_t_appart |-> gap[1], max_t_appart |-> gap[2],
                               delay |-> delay, rand |-> <<rand1, rand2>>], FALSE)
    /\ UNCHANGED <<strip_size, wiring, pxbuf, hueVars, calVars, breathVars, mixVars, engine, waveVars, done,
                   rainbow_rgb, rotate_rgb, pos, ticks>>

\* ticks counts the calls of the running wipe that got past the delay
StripOverride(rgb, delay) ==
    /\ engine = "override"
    /\ LET r == strip_override(rgb, delay)
       IN  /\ pos' = r.pos
           /\ tx' = r.tx
           /\ ms' = Timer(r.reset)
           /\ ticks' = IF r.ret THEN 0 ELSE IF r.tx # <<>> THEN ticks + 1 ELSE ticks
           /\ call' = Call("strip_override", [rgb |-> rgb, delay |-> delay], r.ret)
    /\ UNCHANGED <<strip_size, wiring, pxbuf, hueVars, calVars, breathVars, mixVars, engine, waveVars, done,
                   rainbow_rgb, rotate_rgb, rain_pxbuf, wait_until, rain_hist>>

NextEngines ==
    \/ Tick
    \/ \E c \in PxColors, d \in Delays, st \in WaveSteps, start \in BOOLEAN :
           StripFade(c, d, st, start)
    \/ \E c \in PxColors, d \in Delays, st \in WaveSteps : StripBreathe(c, d, st)
    \/ \E st \in HueSteps, d \in Delays, b \in Brightnesses : StripRainbow(st, d, b)
    \/ \E st \in HueSteps, d \in Delays : StripRotateRainbow(st, d)
    \/ \E c \in RainColors, n \in RainDrops, gap \in RainGaps, d \in RainDelays,
          r1 \in RandValues, r2 \in RandValues : StripRain(c, n, gap, d, r1, r2)
    \/ \E c \in PxColors, d \in Delays : StripOverride(c, d)

SpecEngines == InitEngines /\ [][NextEngines]_vars

\* C6: on a strip of size L exactly L accepted (delay-gated) ticks complete a
\* wipe: a strip_override call returns true exactly when L ticks of the
\* running wipe have been accepted, that call resets the cursor to 0, and
\* every call before it returns false, accepting a tick exactly when the
\* delay has passed.
C6_WipeTakesL ==
    /\ [][call'.op = "strip_override" =>
            IF ticks = strip_size
            THEN call'.ret = TRUE /\ pos' = 0 /\ ticks' = 0 /\ tx' = <<>>
            ELSE /\ call'.ret = FALSE
                 /\ IF ms >= call'.arg.delay
                    THEN ticks' = ticks + 1 /\ OneFrame(tx')
                    ELSE ticks' = ticks /\ tx' = <<>>]_vars
    /\ [](ticks <= strip_size)

\* a wipe of the longest strip has just been completed
C6_Witness ==
    /\ call.op = "strip_override"
    /\ call.ret = TRUE
    /\ strip_size = MaxStrip
    /\ pos = 0
    /\ ticks = 0

\* C13: strip_breathe returns true only on completing a fade cycle, with the
\* wave at rest and the timer restarted; from then until the timer reads
\* 2000 ms every strip_breathe call returns false, projects no frame and
\* leaves the brightness wave, the timer and the dwell as they are; the dwell
\* begins only with a call that returns true and ends only with a call made
\* at 2000 ms or later.
C13_BreatheDwell ==
    /\ [](call.op = "strip_breathe" /\ call.ret
              => done /\ ms = 0 /\ brightness = 0 /\ inc)
    /\ [][(call'.op = "strip_breathe" /\ done /\ ms < BreatheDwell)
          => /\ ~call'.ret
             /\ tx' = <<>>
             /\ ms' = ms
             /\ UNCHANGED <<inc, brightness, rgb_out, done>>]_vars
    /\ [][(done /\ ~done') => call'.op = "strip_breathe" /\ ms >= BreatheDwell]_vars
    /\ [][(~done /\ done') => call'.op = "strip_breathe" /\ call'.ret]_vars

\* a call made in the last millisecond of the dwell was turned away
C13_Witness ==
    /\ call.op = "strip_breathe"
    /\ ~call.ret
    /\ done
    /\ ms = BreatheDwell - 1
    /\ call.arg.delay < ms
    /\ tx = <<>>
    /\ brightness = 0

\* C21 (as stated): after any strip_fade call with start = true the wave is
\* ascending and its brightness is min(step_size, 255), whatever the wave was
\* and whatever the timer read.
C21_RestartAlways ==
    [][(call'.op = "strip_fade" /\ call'.arg.start)
       => inc' /\ brightness' = Min2(call'.arg.step_size, 255)]_vars

\* C21 (amended): a strip_fade call with start = true made after more than
\* delay_ms restarts the wave whatever it was: brightness is
\* min(step_size, 255), the wave is ascending unless that is already the peak
\* 255, the color scaled to that brightness is stored and sent, and the timer
\* is reset; a call made at delay_ms or earlier returns false, sends nothing
\* and leaves the wave and the timer as they were.
C21_RestartWhenDue ==
    [][(call'.op = "strip_fade" /\ call'.arg.start)
       => IF ms > call'.arg.delay
          THEN /\ brightness' = Min2(call'.arg.step_size, 255)
               /\ inc' = (call'.arg.step_size < 255)
               /\ rgb_out' = rgb_apply_brightness(call'.arg.rgb, brightness')
               /\ tx' = strip_apply_all(rgb_out')
               /\ ms' = 0
               /\ call'.ret = FALSE
          ELSE /\ UNCHANGED <<inc, brightness, rgb_out, ms>>
               /\ tx' = <<>>
               /\ call'.ret = FALSE]_vars

\* a restart was made: the wave stands one step of 100 above zero, ascending
C21_Witness ==
    /\ call.op = "strip_fade"
    /\ call.arg.start
    /\ call.arg.step_size = 100
    /\ call.arg.delay = 0
    /\ tx # <<>>
    /\ ms = 0
    /\ inc
    /\ brightness = 100

\* a restart was asked for before the delay had passed, with the wave
\* descending from its peak: the wave was left descending
C21_WitnessDropped ==
    /\ call.op = "strip_fade"
    /\ call.arg.start
    /\ call.arg.delay >= ms
    /\ tx = <<>>
    /\ ~inc
    /\ brightness = 255

\* the color n calls of rgb_apply_fade with one step size lead to from c
FadeSteps(c, step_size, n) ==
    LET f[k \in 0..n] == IF k = 0 THEN c ELSE rgb_apply_fade(f[k - 1], step_size)
    IN  f[n]

\* C22: every strip_rotate_rainbow call made when the delay has passed
\* advances the stored hue color by exactly one fade step and sends one frame
\* of exactly strip_size pixels, pixel i having the color i further fade
\* steps of the same step size lead to from the newly stored hue; the stored
\* hue is the one-step color, untouched by the per-pixel steps.
C22_RotateFrame ==
    [][(call'.op = "strip_rotate_rainbow" /\ ms >= call'.arg.delay)
       => /\ rotate_rgb' = rgb_apply_fade(rotate_rgb, call'.arg.step_size)
          /\ Len(tx') = 3 * strip_size + 2
          /\ tx'[1] = Prep
          /\ tx'[Len(tx')] = End
          /\ PixelCount(tx') = strip_size
          /\ \A i \in 0..(strip_size - 1) :
                 SubSeq(tx', 3 * i + 2, 3 * i + 4)
                     = PxBytes(FadeSteps(rotate_rgb', call'.arg.step_size, i))]_vars

\* a frame of the longest strip was sent whose last pixel differs from the
\* stored hue, which is the color of pixel 0
C22_Witness ==
    /\ call.op = "strip_rotate_rainbow"
    /\ strip_size = MaxStrip
    /\ PixelCount(tx) = MaxStrip
    /\ SubSeq(tx, 2, 4) = PxBytes(rotate_rgb)
    /\ SubSeq(tx, 3 * MaxStrip - 1, 3 * MaxStrip + 1) # PxBytes(rotate_rgb)
    /\ rotate_rgb # <<255, 0, 0>>

\* C7: every droplet that is black when a strip_rain call starts is gone from
\* the droplet buffer when the call ends (a droplet found at its position
\* afterwards is a new one, with the full supplied color).
C7_BlackDropletsRemoved ==
    [][call'.op = "strip_rain" =>
         \A i \in 1..Len(rain_pxbuf.buf) :
             rain_pxbuf.buf[i].rgb = off =>
                 ~\E j \in 1..Len(rain_pxbuf'.buf) :
                      /\ rain_pxbuf'.buf[j].pos = rain_pxbuf.buf[i].pos
                      /\ rain_pxbuf'.buf[j].rgb = off]_vars

\* a color with every nonzero channel lowered by k, none below 0
Dimmed(c, k) == <<Max2(c[R] - k, 0), Max2(c[G] - k, 0), Max2(c[B] - k, 0)>>

Max3(c) == Max2(c[R], Max2(c[G], c[B]))

\* the droplets of the buffer after a call that the buffer before it does not
\* account for: no droplet was stored at the position with that color or
\* with that color before one decay
NewDroplets(before, after) ==
    {k \in 1..Len(after.buf) :
        ~\E i \in 1..Len(before.buf) :
             /\ before.buf[i].pos = after.buf[k].pos
             /\ after.buf[k].rgb \in {before.buf[i].rgb, Dimmed(before.buf[i].rgb, 1)}}

\* C14: with max_drops fixed the droplet buffer never holds more than
\* max_drops droplets; a strip_rain call adds at most one droplet, with the
\* full supplied color, at a position on the strip that held no droplet or a
\* black one (which the call removed first), and it leaves every other
\* position with the droplet it had, decayed or not, or with none.
C14_DropletCap ==
    /\ [](engine = "rain" => rain_pxbuf.size <= rain_hist.max_drops)
    /\ [][call'.op = "strip_rain" =>
            LET new == NewDroplets(rain_pxbuf, rain_pxbuf')
            IN  /\ Cardinality(new) <= 1
                /\ rain_pxbuf'.size <= rain_pxbuf.size + 1
                /\ rain_pxbuf'.size <= call'.arg.max_drops
                /\ \A k \in new :
                       /\ rain_pxbuf'.buf[k].rgb = call'.arg.rgb
                       /\ rain_pxbuf'.buf[k].pos < strip_size
                       /\ \A i \in 1..Len(rain_pxbuf.buf) :
                              rain_pxbuf.buf[i].pos = rain_pxbuf'.buf[k].pos
                                  => rain_pxbuf.buf[i].rgb = off]_vars

\* a call found the time for a drop come and its random position free, yet
\* added nothing: the buffer already held max_drops droplets
C14_Witness ==
    /\ call.op = "strip_rain"
    /\ rain_hist.max_drops = 1
    /\ rain_pxbuf.size = 1
    /\ strip_size = 2
    /\ rain_pxbuf.buf[1].rgb # off
    /\ rain_pxbuf.buf[1].pos # call.arg.rand[2] % strip_size
    /\ ms >= (call.arg.rand[1] % (call.arg.max_t_appart - call.arg.min_t_appart + 1))
                 + call.arg.min_t_appart
    /\ ms > 0

\* C15: in strip_rain with a single droplet (max_drops = 1) inserted with
\* color (r,g,b), a call that finds the decay interval elapsed lowers every
\* nonzero channel of the droplet by exactly 1 and no other call changes it:
\* after k decay ticks its color is (r,g,b) with every channel lowered by k,
\* none below 0, so it is (0,0,0) after exactly max(r,g,b) decay ticks, and
\* the next call after that removes it.
C15_SingleDropletDecay ==
    /\ []((engine = "rain" /\ rain_hist.max_drops = 1 /\ rain_pxbuf.size = 1)
             => /\ rain_pxbuf.buf[1].pos = rain_hist.pos
                /\ rain_pxbuf.buf[1].rgb = Dimmed(rain_hist.rgb, rain_hist.decays)
                /\ rain_hist.decays <= Max3(rain_hist.rgb)
                /\ rain_pxbuf.buf[1].rgb = off
                       <=> rain_hist.decays = Max3(rain_hist.rgb))
    /\ [][(call'.op = "strip_rain" /\ rain_hist.max_drops = 1 /\ rain_pxbuf.size = 1)
          => IF rain_pxbuf.buf[1].rgb = off
             THEN \/ rain_pxbuf' = pxbuf_init
                  \/ /\ rain_pxbuf'.size = 1
                     /\ rain_pxbuf'.buf[1].rgb = call'.arg.rgb
                     /\ rain_hist'.decays = 0
             ELSE /\ rain_pxbuf'.size = 1
                  /\ rain_pxbuf'.buf[1].pos = rain_pxbuf.buf[1].pos
                  /\ IF ms >= wait_until
                     THEN /\ rain_pxbuf'.buf[1].rgb = Dimmed(rain_pxbuf.buf[1].rgb, 1)
                          /\ rain_hist'.decays = rain_hist.decays + 1
                     ELSE /\ rain_pxbuf'.buf[1].rgb = rain_pxbuf.buf[1].rgb
                          /\ rain_hist'.decays = rain_hist.decays]_vars

\* a droplet of two unequal nonzero channels has had its last decay tick
C15_Witness ==
    /\ call.op = "strip_rain"
    /\ rain_hist.max_drops = 1
    /\ rain_pxbuf.size = 1
    /\ rain_hist.rgb = <<2, 1, 0>>
    /\ rain_hist.decays = 2
    /\ rain_pxbuf.buf[1].rgb = off

\* the black droplet was removed by the call after its last decay tick
C15_WitnessRemoved ==
    /\ call.op = "strip_rain"
    /\ rain_hist.max_drops = 1
    /\ rain_hist.decays = Max3(rain_hist.rgb)
    /\ rain_hist.decays > 0
    /\ rain_pxbuf = pxbuf_init

\* the statics of all engines, and the timer
Statics == <<inc, brightness, rgb_out, done, rainbow_rgb, rotate_rgb,
             rain_pxbuf, wait_until, pos>>

EngineOps ==
    {"strip_fade", "strip_breathe", "strip_rainbow", "strip_rotate_rainbow",
     "strip_rain", "strip_override"}

\* (a) nothing transmitted, no static changed, timer left running
Suspended == tx' = <<>> /\ Statics' = Statics /\ ms' = ms

\* the wave of rgb_apply_brightness_fade moved on by one call
WaveStepped(rgb, step_size, start) ==
    LET r == rgb_apply_brightness_fade(rgb, step_size, start)
    IN  /\ inc' = r.inc
        /\ brightness' = r.brightness
        /\ rgb_out' = r.rgb_out
        /\ call'.ret = r.ret

\* one frame of strip_size pixels was sent
FullFrame == OneFrame(tx') /\ Len(tx') = 3 * strip_size + 2

\* the call restarted the timer
TimerReset == ms' = 0

\* (b) for each engine: its statics moved on by one step, no other static
\* changed, and one frame was sent
Stepped ==
    /\ OneFrame(tx')
    /\ CASE call'.op = "strip_fade" ->
              /\ WaveStepped(call'.arg.rgb, call'.arg.step_size, call'.arg.start)
              /\ UNCHANGED <<done, rainbow_rgb, rotate_rgb, rain_pxbuf, wait_until, pos>>
         [] call'.op = "strip_breathe" ->
              /\ WaveStepped(call'.arg.rgb, call'.arg.step_size, FALSE)
              /\ done' = call'.ret
              /\ UNCHANGED <<rainbow_rgb, rotate_rgb, rain_pxbuf, wait_until, pos>>
         [] call'.op = "strip_rainbow" ->
              /\ rainbow_rgb' = rgb_apply_fade(rainbow_rgb, call'.arg.step_size)
              /\ UNCHANGED <<waveVars, done, rotate_rgb, rain_pxbuf, wait_until, pos>>
         [] call'.op = "strip_rotate_rainbow" ->
              /\ rotate_rgb' = rgb_apply_fade(rotate_rgb, call'.arg.step_size)
              /\ UNCHANGED <<waveVars, done, rainbow_rgb, rain_pxbuf, wait_until, pos>>
         [] call'.op = "strip_rain" ->
              /\ <<rain_pxbuf', wait_until'>> # <<rain_pxbuf, wait_until>>
              /\ UNCHANGED <<waveVars, done, rainbow_rgb, rotate_rgb, pos>>
         [] call'.op = "strip_override" ->
              /\ pos' = pos + 1
              /\ UNCHANGED <<waveVars, done, rainbow_rgb, rotate_rgb, rain_pxbuf,
                             wait_until>>

\* C8 as claimed: every call of an animation engine either (a) returns
\* without transmitting and without changing its persistent state, or (b)
\* advances its persistent state by exactly one step and projects one frame.
C8_SuspendOrStep ==
    [][call'.op \in EngineOps => Suspended \/ Stepped]_vars

\* C8 as amended: strip_fade, strip_rainbow and strip_rotate_rainbow do (a)
\* while their delay has not passed and (b), restarting the timer, once it has.  strip_breathe does
\* (a) during its dwell and (b) once the delay has passed; a call after the
\* dwell that the delay still holds back transmits nothing and leaves done
\* cleared.  strip_override does (a) or (b) while the cursor is short of
\* strip_size; at strip_size it resets the cursor and returns true without
\* transmitting.  strip_rain is not gated: every call projects exactly one
\* frame of strip_size pixels, whether or not a droplet or its timer changed.
C8_EngineOutcomes ==
    [][call'.op \in EngineOps =>
         CASE call'.op = "strip_fade" ->
                IF ms <= call'.arg.delay THEN Suspended /\ call'.ret = FALSE
                ELSE Stepped /\ FullFrame /\ TimerReset
           [] call'.op = "strip_breathe" ->
                IF done /\ ms < BreatheDwell THEN Suspended /\ call'.ret = FALSE
                ELSE IF ms <= call'.arg.delay
                     THEN /\ tx' = <<>>
                          /\ ms' = ms
                          /\ done' = FALSE
                          /\ call'.ret = FALSE
                          /\ UNCHANGED <<waveVars, rainbow_rgb, rotate_rgb,
                                         rain_pxbuf, wait_until, pos>>
                     ELSE Stepped /\ FullFrame /\ TimerReset
           [] call'.op = "strip_rainbow" ->
                IF ms < call'.arg.delay THEN Suspended ELSE Stepped /\ FullFrame /\ TimerReset
           [] call'.op = "strip_rotate_rainbow" ->
                IF ms < call'.arg.delay THEN Suspended ELSE Stepped /\ FullFrame /\ TimerReset
           [] call'.op = "strip_rain" ->
                /\ FullFrame
                /\ UNCHANGED <<waveVars, done, rainbow_rgb, rotate_rgb, pos>>
           [] call'.op = "strip_override" ->
                IF pos = strip_size
                THEN /\ tx' = <<>>
                     /\ ms' = ms
                     /\ pos' = 0
                     /\ call'.ret = TRUE
                     /\ UNCHANGED <<waveVars, done, rainbow_rgb, rotate_rgb,
                                    rain_pxbuf, wait_until>>
                ELSE IF ms < call'.arg.delay THEN Suspended /\ call'.ret = FALSE
                     ELSE /\ Stepped /\ TimerReset
                          /\ Len(tx') = 3 * (pos + 1) + 2
                          /\ call'.ret = FALSE]_vars

\* strip_override has come back true from a cursor it had to move, having
\* transmitted nothing
C8_Witness ==
    /\ call.op = "strip_override"
    /\ call.ret = TRUE
    /\ tx = <<>>
    /\ strip_size > 0
    /\ pos = 0

---------------------------------------------------------------------------
(* SpecRainbowAny: the host loop runs strip_rainbow, changing the step size *)
(* and the brightness from call to call                                     *)

RainbowSteps == {0, 1, 85, 128, 255}
RainbowBrights == {0, 128, 255}
RainbowDelays == {0, 1}
RainbowTimes == {0, 1}
AllHueSteps == 0..255

InitRainbowAny ==
    /\ engine = "rainbow_any"
    /\ strip_size = 1
    /\ wiring = <<G, R, B>>
    /\ ms = 0
    /\ tx = <<>>
    /\ call = NoCall
    /\ pxbuf = pxbuf_init
    /\ HueInit
    /\ StaticsInit
    /\ IdleInit

RainbowTick ==
    /\ engine = "rainbow_any"
    /\ \E t \in RainbowTimes : t > ms /\ ms' = t
    /\ call' = Call("tick", <<>>, FALSE)
    /\ UNCHANGED <<strip_size, wiring, tx, pxbuf, hueVars, engVars>>

RainbowAny(step_size, delay, bright) ==
    /\ engine = "rainbow_any"
    /\ LET r == strip_rainbow(step_size, delay, bright)
       IN  /\ rainbow_rgb' = r.rgb
           /\ tx' = r.tx
           /\ ms' = Timer(r.reset)
           /\ call' = Call("strip_rainbow", [step_size |-> step_size, delay |-> delay,
                               brightness |-> bright], FALSE)
    /\ UNCHANGED <<strip_size, wiring, pxbuf, hueVars, calVars, breathVars, mixVars, engine,
                   waveVars, done, rotate_rgb, rain_pxbuf, wait_until, pos, ticks,
                   rain_hist>>

NextRainbowAny ==
    \/ RainbowTick
    \/ \E st \in RainbowSteps, d \in RainbowDelays, b \in RainbowBrights :
           RainbowAny(st, d, b)

SpecRainbowAny == InitRainbowAny /\ [][NextRainbowAny]_vars

\* C23: the hue color strip_rainbow stores is a hue-wheel position after any
\* sequence of calls with any step sizes and brightness values: every step
\* size 0..255 takes the stored position to a hue-wheel position, and the
\* brightness scales the transmitted copy only (the pixel sent is the stored
\* color scaled, the stored color is the unscaled fade step).
C23_StoredHueOnWheel ==
    /\ [](IsWheel(rainbow_rgb)
            /\ \A st \in AllHueSteps : IsWheel(rgb_apply_fade(rainbow_rgb, st)))
    /\ [][(call'.op = "strip_rainbow" /\ ms >= call'.arg.delay)
          => /\ rainbow_rgb' = rgb_apply_fade(rainbow_rgb, call'.arg.step_size)
             /\ tx' = strip_apply_all(
                          <<ScaleChannel(rainbow_rgb'[R], call'.arg.brightness),
                            ScaleChannel(rainbow_rgb'[G], call'.arg.brightness),
                            ScaleChannel(rainbow_rgb'[B], call'.arg.brightness)>>)]_vars

\* a call with brightness 0 sent a black pixel and stored a wheel position
\* on the blue to red segment
C23_Witness ==
    /\ call.op = "strip_rainbow"
    /\ call.arg.brightness = 0
    /\ call.arg.step_size = 255
    /\ tx = strip_apply_all(off)
    /\ rainbow_rgb[G] = 0
    /\ rainbow_rgb[B] = 100
    /\ rainbow_rgb[R] = 155

---------------------------------------------------------------------------
(* SpecBreatheArray: the host loop runs strip_breathe_array with one list   *)
(* of colors                                                                *)

\* the list of n colors the host hands over
BreatheList(n) == [k \in 1..n |-> <<255 - k, k, 0>>]

ArraySteps == {100, 255}
ArrayDelays == {0}

InitBreatheArray ==
    /\ engine = "breathe_array"
    /\ strip_size = 1
    /\ wiring = <<G, R, B>>
    /\ ms = 0
    /\ tx = <<>>
    /\ call = NoCall
    /\ pxbuf = pxbuf_init
    /\ HueInit
    /\ StaticsInit
    /\ rain_hist = NoRain
    /\ cal = NoCal
    /\ cal_hist = NoCalHist
    /\ breath_hist \in {[NoBreaths EXCEPT !.size = n] : n \in 1..MaxColors}

ArrayTick == engine = "breathe_array" /\ Tick

\* breath_hist counts the calls on which strip_breathe returned true
StripBreatheArray(rgb, size, delay_ms, step_size) ==
    /\ engine = "breathe_array"
    /\ size = breath_hist.size
    /\ breath_hist.breaths < MaxBreaths
    /\ LET r == strip_breathe_array(rgb, size, delay_ms, step_size)
       IN  /\ inc' = r.inc
           /\ brightness' = r.brightness
           /\ rgb_out' = r.rgb_out
           /\ done' = r.done
           /\ breathe_i' = r.i
           /\ breath_hist' = IF r.ret THEN [breath_hist EXCEPT !.breaths = @ + 1]
                             ELSE breath_hist
           /\ tx' = r.tx
           /\ ms' = Timer(r.reset)
           /\ call' = Call("strip_breathe_array",
                           [rgb |-> rgb, size |-> size, delay |-> delay_ms,
                            step_size |-> step_size], FALSE)
    /\ UNCHANGED <<strip_size, wiring, pxbuf, hueVars, calVars, mixVars, engine,
                   rainbow_rgb, rotate_rgb, rain_pxbuf, wait_until, pos, ticks,
                   rain_hist>>

NextBreatheArray ==
    \/ ArrayTick
    \/ \E n \in 1..MaxColors, d \in ArrayDelays, st \in ArraySteps :
           StripBreatheArray(BreatheList(n), n, d, st)

SpecBreatheArray == InitBreatheArray /\ [][NextBreatheArray]_vars

\* C24: with a fixed list of n >= 1 colors, the index of strip_breathe_array
\* moves on by one modulo n on exactly the calls on which strip_breathe
\* returns true and stays on every other call and between calls; it stays in
\* 0..n-1, after k completed breaths it is k mod n, and every frame sent
\* shows rgb[k mod n] at the brightness of the wave.
C24_ArrayIndex ==
    /\ [](engine = "breathe_array"
             => /\ breathe_i \in 0..(breath_hist.size - 1)
                /\ breathe_i = breath_hist.breaths % breath_hist.size)
    /\ [][call'.op = "strip_breathe_array"
          => LET a == call'.arg
                 r == strip_breathe(a.rgb[breathe_i + 1], a.delay, a.step_size)
             IN  /\ breathe_i' = IF r.ret THEN (breathe_i + 1) % a.size
                                  ELSE breathe_i
                 /\ breath_hist'.breaths = breath_hist.breaths
                                               + (IF r.ret THEN 1 ELSE 0)
                 /\ tx' # <<>>
                       => tx' = strip_apply_all(rgb_apply_brightness(
                                    a.rgb[(breath_hist.breaths % a.size) + 1],
                                    brightness'))]_vars
    /\ [][breathe_i' # breathe_i => call'.op = "strip_breathe_array"]_vars

\* the longest list has been breathed through once and the index has come
\* round to the start and moved on again
C24_Witness ==
    /\ call.op = "strip_breathe_array"
    /\ breath_hist.size = MaxColors
    /\ breath_hist.breaths = MaxBreaths
    /\ breathe_i = MaxBreaths % MaxColors
    /\ breathe_i < breath_hist.breaths
    /\ done

---------------------------------------------------------------------------
(* SpecScroll: a caller walks a color round the hue wheel with              *)
(* rgb_apply_fade, one unit a call, and calls strip_scroll_rgb for the      *)
(* number of steps walked                                                   *)

\* the last multiple of 765 that leaves val a uint16_t
ScrollTurns == {0, 1, 84}
ScrollBrights == {128, 255}

InitScroll ==
    /\ engine = "scroll"
    /\ strip_size = 1
    /\ wiring = <<G, R, B>>
    /\ ms = 0
    /\ tx = <<>>
    /\ call = NoCall
    /\ pxbuf = pxbuf_init
    /\ HueInit
    /\ StaticsInit
    /\ IdleInit

ScrollStep ==
    /\ engine = "scroll"
    /\ fades < MaxFades
    /\ hue' = rgb_apply_fade(hue, 1)
    /\ fades' = fades + 1
    /\ tx' = <<>>
    /\ call' = Call("rgb_apply_fade", [step_size |-> 1], TRUE)
    /\ UNCHANGED <<strip_size, wiring, ms, pxbuf, visited, engVars>>

StripScrollRgb(val, bright) ==
    /\ engine = "scroll"
    /\ val < U16
    /\ tx' = strip_scroll_rgb(val, bright)
    /\ call' = Call("strip_scroll_rgb", [val |-> val, brightness |-> bright], FALSE)
    /\ UNCHANGED <<strip_size, wiring, ms, pxbuf, hueVars, engVars>>

NextScroll ==
    \/ ScrollStep
    \/ \E n \in ScrollTurns, b \in ScrollBrights :
           StripScrollRgb(fades + n * WheelPeriod, b)

SpecScroll == InitScroll /\ [][NextScroll]_vars

\* C25: for every wheel position p in 0..764 the frame strip_scroll_rgb sends
\* for p at brightness 255 shows the color p calls of rgb_apply_fade with
\* step size 1 reach from (255,0,0), and so does the frame it sends for
\* p + 765 (and for any val with val mod 765 = p).
C25_ScrollIsWalk ==
    (call.op = "strip_scroll_rgb" /\ call.arg.brightness = 255)
        => /\ call.arg.val % WheelPeriod = fades % WheelPeriod
           /\ tx = strip_apply_all(hue)
           /\ fades < WheelPeriod
                 => call.arg.val \in {fades + n * WheelPeriod : n \in ScrollTurns}

\* the last position of the wheel was asked for one turn on
C25_Witness ==
    /\ call.op = "strip_scroll_rgb"
    /\ call.arg.brightness = 255
    /\ fades = WheelPeriod - 1
    /\ call.arg.val = fades + WheelPeriod
    /\ hue = <<254, 0, 1>>
    /\ tx = strip_apply_all(<<254, 0, 1>>)

---------------------------------------------------------------------------
(* SpecMix: the host loop calls now one entry point, now another: two that *)
(* wipe (strip_override_array, strip_override_rainbow) and two that fade   *)
(* (strip_fade, strip_breathe_rainbow)                                     *)

MixArrays == {<<<<255, 0, 0>>, <<0, 0, 255>>>>}
MixDelays == {0}
MixWaveSteps == {255}
MixHueSteps == {255}

InitMix ==
    /\ engine = "mix"
    /\ strip_size = MaxStrip
    /\ wiring = <<G, R, B>>
    /\ ms = 0
    /\ tx = <<>>
    /\ call = NoCall
    /\ pxbuf = pxbuf_init
    /\ HueInit
    /\ StaticsInit
    /\ IdleInit

MixTick == engine = "mix" /\ Tick

StripOverrideArray(rgb, size, delay) ==
    /\ LET r == strip_override_array(rgb, size, delay)
       IN  /\ pos' = r.pos
           /\ array_i' = r.i
           /\ tx' = r.tx
           /\ ms' = Timer(r.reset)
           /\ call' = Call("strip_override_array",
                           [rgb |-> rgb, size |-> size, delay |-> delay], FALSE)
    /\ UNCHANGED <<strip_size, wiring, pxbuf, hueVars, calVars, breathVars, engine, waveVars,
                   done, rainbow_rgb, rotate_rgb, rain_pxbuf, wait_until, ticks,
                   rain_hist, override_rgb, breathe_rgb>>

StripOverrideRainbow(delay, step_size) ==
    /\ LET r == strip_override_rainbow(delay, step_size)
       IN  /\ pos' = r.pos
           /\ override_rgb' = r.rgb
           /\ tx' = r.tx
           /\ ms' = Timer(r.reset)
           /\ call' = Call("strip_override_rainbow",
                           [delay |-> delay, step_size |-> step_size], FALSE)
    /\ UNCHANGED <<strip_size, wiring, pxbuf, hueVars, calVars, breathVars, engine, waveVars,
                   done, rainbow_rgb, rotate_rgb, rain_pxbuf, wait_until, ticks,
                   rain_hist, array_i, breathe_rgb>>

MixStripFade(rgb, delay_ms, step_size, start) ==
    /\ LET r == strip_fade(rgb, delay_ms, step_size, start)
       IN  /\ inc' = r.inc
           /\ brightness' = r.brightness
           /\ rgb_out' = r.rgb_out
           /\ tx' = r.tx
           /\ ms' = Timer(r.reset)
           /\ call' = Call("strip_fade", [rgb |-> rgb, delay |-> delay_ms,
                               step_size |-> step_size, start |-> start], r.ret)
    /\ UNCHANGED <<strip_size, wiring, pxbuf, hueVars, calVars, breathVars, mixVars, engine,
                   done, rainbow_rgb, rotate_rgb, rain_pxbuf, wait_until, pos,
                   ticks, rain_hist>>

StripBreatheRainbow(delay_ms, breath_step_size, rgb_step_size) ==
    /\ LET r == strip_breathe_rainbow(delay_ms, breath_step_size, rgb_step_size)
       IN  /\ inc' = r.inc
           /\ brightness' = r.brightness
           /\ rgb_out' = r.rgb_out
           /\ done' = r.done
           /\ breathe_rgb' = r.rgb
           /\ tx' = r.tx
           /\ ms' = Timer(r.reset)
           /\ call' = Call("strip_breathe_rainbow",
                           [delay |-> delay_ms, step_size |-> breath_step_size,
                            rgb_step_size |-> rgb_step_size], FALSE)
    /\ UNCHANGED <<strip_size, wiring, pxbuf, hueVars, calVars, breathVars, engine,
                   rainbow_rgb, rotate_rgb, rain_pxbuf, wait_until, pos, ticks,
                   rain_hist, array_i, override_rgb>>

NextMix ==
    \/ MixTick
    \/ \E a \in MixArrays, d \in MixDelays : StripOverrideArray(a, Len(a), d)
    \/ \E d \in MixDelays, st \in MixHueSteps : StripOverrideRainbow(d, st)
    \/ \E c \in {<<0, 0, 255>>}, d \in MixDelays, st \in MixWaveSteps,
          start \in BOOLEAN : MixStripFade(c, d, st, start)
    \/ \E d \in MixDelays, st \in MixWaveSteps, hs \in MixHueSteps :
           StripBreatheRainbow(d, st, hs)

SpecMix == InitMix /\ [][NextMix]_vars

\* the persistent state an entry point works on: its own statics and those
\* of the functions it calls
StateOf(op) ==
    CASE op = "strip_override_array" -> <<array_i, pos>>
      [] op = "strip_override_rainbow" -> <<override_rgb, pos>>
      [] op = "strip_fade" -> <<rgb_out, inc, brightness>>
      [] op = "strip_breathe_rainbow" -> <<breathe_rgb, done, rgb_out, inc, brightness>>

MixOps ==
    {"strip_override_array", "strip_override_rainbow", "strip_fade",
     "strip_breathe_rainbow"}

\* C19: calling one animation entry point leaves the persistent state of
\* every other entry point unchanged.
C19_PrivateState ==
    [][call'.op \in MixOps =>
         \A op \in MixOps \ {call'.op} : StateOf(op)' = StateOf(op)]_vars

\* the statics declared in an entry point itself are changed by no other
OwnStaticsPrivate ==
    /\ [][array_i' # array_i => call'.op = "strip_override_array"]_vars
    /\ [][override_rgb' # override_rgb => call'.op = "strip_override_rainbow"]_vars
    /\ [][breathe_rgb' # breathe_rgb => call'.op = "strip_breathe_rainbow"]_vars
    /\ [][done' # done => call'.op = "strip_breathe_rainbow"]_vars

\* strip_override_array has moved the cursor strip_override_rainbow wipes with
WipeCursorShared ==
    /\ call.op = "strip_override_array"
    /\ pos = 1
    /\ array_i = 0
    /\ override_rgb = <<255, 0, 0>>
    /\ OneFrame(tx)

\* strip_fade with start set has restarted the wave strip_breathe_rainbow was
\* half way through
WaveShared ==
    /\ call.op = "strip_fade"
    /\ call.arg.start
    /\ ~inc
    /\ brightness = 255
    /\ ~done
    /\ breathe_rgb # <<255, 0, 0>>

---------------------------------------------------------------------------
(* SpecCalibrate: one call of strip_calibrate, followed through its loops   *)
(* while the user works the button and the potentiometer and time passes.   *)
(* The projections it makes are recorded as the calls they are; what each   *)
(* hands to the driver is what SpecProj gives for the same arguments.       *)

\* the buffer strip_calibrate projects: filled part, end point, rest
CalBuf(length0, length2) ==
    SegBuf(<<[length |-> length0, rgb |-> <<255, 255, 255>>],
             [length |-> 1, rgb |-> <<0, 255, 0>>],
             [length |-> length2, rgb |-> <<0, 0, 0>>]>>)

FrameOff == [op |-> "strip_apply_all", arg |-> off]
FramePattern(c) ==
    [op |-> "strip_apply_substrpbuf", arg |-> CalBuf(c.length0, c.length2)]

\* the end of a pass of while(true): the potentiometer is read, the buffer
\* projected, and the button and potentiometer readings kept
CalRest(c, btn_state, pot, reset) ==
    LET c1 == IF pot # c.prev_pot
              THEN [c EXCEPT !.length0 = pot, !.length2 = (254 - pot) % U16]
              ELSE c
    IN  [cal    |-> [c1 EXCEPT !.prev_btn_state = btn_state, !.prev_pot = pot],
         commit |-> FALSE, reset |-> reset, frame |-> TRUE]

\* one pass of while(true) that also leaves the loop when the button is
\* released
calibrate_loop_release(c, btn_state, pot) ==
    IF ~c.prev_btn_state /\ btn_state
    THEN CalRest(c, btn_state, pot, TRUE)
    ELSE IF btn_state
         THEN IF ms >= CommitHold
              THEN [cal |-> [c EXCEPT !.pc = "blink", !.i = 0],
                    commit |-> TRUE, reset |-> FALSE, frame |-> FALSE]
              ELSE [cal |-> c, commit |-> FALSE, reset |-> FALSE, frame |-> FALSE]
         ELSE IF c.prev_btn_state /\ ~btn_state
              THEN [cal |-> [c EXCEPT !.pc = "returned"],
                    commit |-> FALSE, reset |-> FALSE, frame |-> FALSE]
              ELSE CalRest(c, btn_state, pot, FALSE)

\* one pass of while(true) with the readings btn_state and pot
calibrate_loop(c, btn_state, pot) ==
    IF ~c.prev_btn_state /\ btn_state
    THEN CalRest(c, btn_state, pot, TRUE)
    ELSE IF btn_state
         THEN IF ms >= CommitHold
              THEN [cal |-> [c EXCEPT !.pc = "blink", !.i = 0],
                    commit |-> TRUE, reset |-> FALSE, frame |-> FALSE]
              ELSE [cal |-> c, commit |-> FALSE, reset |-> FALSE, frame |-> FALSE]
         ELSE IF c.prev_btn_state /\ ~btn_state
              THEN CalRest([c EXCEPT !.length0 = (@ + 1) % U16,
                                     !.length2 = (@ - 1) % U16],
                           btn_state, pot, FALSE)
              ELSE CalRest(c, btn_state, pot, FALSE)

PotValues == {0, 1, 255}

\* timer readings round the hold that commits
CalTimePoints == {0, 1, CommitHold - 1, CommitHold, CommitHold + 1}

calRest == <<wiring, tx, pxbuf, hueVars, engine, waveVars, done, rainbow_rgb,
             rotate_rgb, rain_pxbuf, wait_until, pos, ticks, rain_hist, mixVars,
             breathVars>>

CalCall(btn_state, pot, returned) ==
    [Call("strip_calibrate", [btn_state |-> btn_state, pot |-> pot], FALSE)
        EXCEPT !.returned = returned]

InitCalibrate ==
    /\ strip_size = 0
    /\ wiring = <<G, R, B>>
    /\ ms \in CalTimePoints
    /\ tx = <<>>
    /\ call = NoCall
    /\ pxbuf = pxbuf_init
    /\ HueInit
    /\ engine = "none"
    /\ StaticsInit
    /\ IdleInit

\* the call: the buffer is set up and projected
CalEnter ==
    /\ cal.pc = "idle"
    /\ cal' = [cal EXCEPT !.pc = "wait", !.length0 = 0, !.length2 = 255]
    /\ cal_hist' = NoCalHist
    /\ call' = CalCall(FALSE, 0, FALSE)
    /\ UNCHANGED <<strip_size, eeprom_strip_size, ms, calRest>>

\* while (BTN_STATE); and, once it reads released, the first readings of
\* the button (btn_state2, read anew) and the potentiometer
CalWait(btn_state, btn_state2, pot) ==
    /\ cal.pc = "wait"
    /\ cal' = IF btn_state THEN cal
              ELSE [cal EXCEPT !.pc = "loop", !.prev_btn_state = btn_state2,
                               !.prev_pot = pot]
    /\ call' = CalCall(btn_state, pot, FALSE)
    /\ UNCHANGED <<strip_size, eeprom_strip_size, cal_hist, ms, calRest>>

\* one pass of while(true); the pass that commits sets and persists strip_size.
\* cal_hist.press follows the button: set by a pass that sees it go down,
\* cleared by a pass that reads it up
CalLoop(btn_state, pot) ==
    /\ cal.pc = "loop"
    /\ (cal.prev_btn_state /\ ~btn_state) => cal.length0 < (U8 - 1) + MaxFine
    /\ LET r == calibrate_loop(cal, btn_state, pot)
       IN  /\ cal' = r.cal
           /\ ms' = Timer(r.reset)
           /\ strip_size' = IF r.commit THEN (cal.length0 + 1) % U16 ELSE strip_size
           /\ eeprom_strip_size' =
                  IF r.commit THEN (cal.length0 + 1) % U16 ELSE eeprom_strip_size
           /\ cal_hist' =
                  [cal_hist EXCEPT
                      !.writes = IF r.commit THEN @ + 1 ELSE @,
                      !.press = IF btn_state THEN (~cal.prev_btn_state \/ @)
                                ELSE FALSE]
           /\ call' = CalCall(btn_state, pot, r.cal.pc = "returned")
    /\ UNCHANGED calRest

\* one pass of the blink loop, or the code after it: strip off, return
CalBlink ==
    /\ cal.pc = "blink"
    /\ IF cal.i < Blinks
       THEN /\ cal' = [cal EXCEPT !.i = @ + 1]
            /\ cal_hist' = [cal_hist EXCEPT
                                !.frames = @ \o <<FrameOff, FramePattern(cal)>>]
            /\ call' = CalCall(TRUE, cal.prev_pot, FALSE)
       ELSE /\ cal' = [cal EXCEPT !.pc = "returned"]
            /\ cal_hist' = [cal_hist EXCEPT !.frames = @ \o <<FrameOff>>]
            /\ call' = CalCall(TRUE, cal.prev_pot, TRUE)
    /\ UNCHANGED <<strip_size, eeprom_strip_size, ms, calRest>>

CalTick ==
    /\ cal.pc \in {"wait", "loop"}
    /\ \E t \in CalTimePoints : t > ms /\ ms' = t
    /\ call' = Call("tick", <<>>, FALSE)
    /\ UNCHANGED <<strip_size, calVars, calRest>>

NextCalibrate ==
    \/ CalEnter
    \/ \E b \in BOOLEAN, b2 \in BOOLEAN, p \in PotValues : CalWait(b, b2, p)
    \/ \E b \in BOOLEAN, p \in PotValues : CalLoop(b, p)
    \/ CalBlink
    \/ CalTick

SpecCalibrate == InitCalibrate /\ [][NextCalibrate]_vars

\* what strip_calibrate does from the commit on, for the buffer it holds
CommitFrames(c) ==
    <<FrameOff, FramePattern(c), FrameOff, FramePattern(c), FrameOff,
      FramePattern(c), FrameOff>>

\* C16: strip_calibrate returns only through a commit.  The loop is left only
\* by a pass that reads the button down, read down the pass before as well,
\* with the timer (restarted at the press) at 1000 ms or more, and every
\* such pass leaves it; that pass sets strip_size to the filled length + 1
\* and persists it, the only write of the call; then off and the pattern are
\* shown three times, then the strip is projected off, then the call returns.
C16_ReturnsThroughCommit ==
    /\ [][(cal.pc = "loop" /\ call'.op = "strip_calibrate")
          => IF call'.arg.btn_state /\ cal.prev_btn_state /\ ms >= CommitHold
             THEN /\ cal'.pc = "blink"
                  /\ strip_size' = cal.length0 + 1
                  /\ eeprom_strip_size' = strip_size'
                  /\ cal_hist'.writes = 1
                  /\ cal_hist'.frames = <<>>
             ELSE /\ cal'.pc = "loop"
                  /\ UNCHANGED <<strip_size, eeprom_strip_size>>
                  /\ cal_hist'.writes = cal_hist.writes
                  /\ cal_hist'.frames = cal_hist.frames]_vars
    /\ [][(cal.pc # "returned" /\ cal'.pc = "returned")
          => /\ cal.pc = "blink"
             /\ cal_hist'.writes = 1
             /\ cal_hist'.frames = CommitFrames(cal)
             /\ strip_size' = cal.length0 + 1
             /\ eeprom_strip_size' = strip_size'
             /\ call'.returned]_vars
    /\ [][cal.pc # "loop" => UNCHANGED <<strip_size, eeprom_strip_size>>
                               /\ cal_hist'.writes = cal_hist.writes]_vars
    /\ [](call.op = "strip_calibrate" => call.returned = (cal.pc = "returned"))
    /\ [](cal_hist.writes = IF cal.pc \in {"blink", "returned"} THEN 1 ELSE 0)

\* C26: in every state of the calibration loop the three segment lengths
\* (filled, the end point, unfilled) sum to at most 256: the unfilled length
\* never wraps below zero and no calibration frame has more than 256 pixels.
C26_SegmentsFit ==
    cal.pc \in {"wait", "loop", "blink", "returned"}
        => /\ cal.length0 + 1 + cal.length2 <= U8
           /\ SumLengths(FramePattern(cal).arg, 0) <= U8

\* the potentiometer at its top has wrapped the unfilled length
UnfilledWraps ==
    /\ cal.pc = "loop"
    /\ cal.prev_pot = U8 - 1
    /\ cal.length0 = U8 - 1
    /\ cal.length2 = U16 - 1

\* C27: strip_calibrate commits only when the button has been held down for
\* at least 1000 ms since a press seen inside the loop, whatever the timer
\* read at entry and whatever the button did: the pass that commits finds the
\* button down since such a press, with the timer restarted at that press
\* at 1000 ms or more.
C27_CommitNeedsHold ==
    [][(cal.pc = "loop" /\ cal'.pc = "blink")
       => cal_hist.press /\ ms >= CommitHold]_vars

\* a commit was made though no press was ever seen inside the loop
CommitWithoutPress ==
    /\ cal.pc = "blink"
    /\ cal_hist.writes = 1
    /\ ~cal_hist.press

\* when a press was seen inside the loop the commit waits for the timer
\* restarted at that press
CommitAfterPressWaits ==
    [][(cal.pc = "loop" /\ cal_hist.press /\ call'.op = "strip_calibrate")
       => (cal'.pc = "blink") = (call'.arg.btn_state /\ ms >= CommitHold)]_vars

\* with the potentiometer at its top the length persisted is 256, and one
\* press more makes it 257
CalibrateSets256 == cal.pc = "returned" /\ strip_size = U8
CalibrateSets257 == cal.pc = "returned" /\ strip_size = U8 + 1

\* the call has returned having persisted a length set with the
\* potentiometer and one press of the button
C16_Witness ==
    /\ cal.pc = "returned"
    /\ call.returned
    /\ cal.length0 = 2
    /\ strip_size = 3
    /\ eeprom_strip_size = 3
    /\ cal_hist.writes = 1
    /\ Len(cal_hist.frames) = 7

---------------------------------------------------------------------------
(* SpecWipeCal: the host loop runs strip_override and, at some point        *)
(* between two of its calls, strip_calibrate (the long hold of the button); *)
(* strip_calibrate is followed through its loops as in SpecCalibrate        *)

WipePots == {0, 1}
WipeColors == {<<255, 0, 0>>}
WipeDelays == {0}

InitWipeCal ==
    /\ engine = "override"
    /\ strip_size = MaxStrip + 1
    /\ wiring = <<G, R, B>>
    /\ ms \in CalTimePoints
    /\ tx = <<>>
    /\ call = NoCall
    /\ pxbuf = pxbuf_init
    /\ HueInit
    /\ StaticsInit
    /\ IdleInit

\* strip_override called while strip_calibrate is not running; the cursor is
\* followed up to two pixels past the longest strip
WipeOverride(rgb, delay) ==
    /\ cal.pc \in {"idle", "returned"}
    /\ pos <= MaxStrip + 2
    /\ StripOverride(rgb, delay)

\* a pass of the calibration loop, the length set kept short
WipeCalLoop(btn_state, pot) ==
    /\ cal.length0 <= MaxStrip
    /\ CalLoop(btn_state, pot)

NextWipeCal ==
    \/ \E c \in WipeColors, d \in WipeDelays : WipeOverride(c, d)
    \/ CalEnter
    \/ \E b \in BOOLEAN, b2 \in BOOLEAN, p \in WipePots : CalWait(b, b2, p)
    \/ \E b \in BOOLEAN, p \in WipePots : WipeCalLoop(b, p)
    \/ CalBlink
    \/ CalTick

SpecWipeCal == InitWipeCal /\ [][NextWipeCal]_vars

\* C28: in every reachable state, strip_calibrate changing strip_size
\* between strip_override calls included, the wipe cursor is at most
\* strip_size and no strip_override frame has more than strip_size pixels.
C28_WipeWithinStrip ==
    /\ [](pos <= strip_size)
    /\ [][call'.op = "strip_override" => PixelCount(tx') <= strip_size]_vars

\* while strip_size stays as it is the cursor stays within the strip and so
\* does every frame
WipeWithinFixedStrip ==
    /\ [](cal.pc = "idle" => pos <= strip_size)
    /\ [][(call'.op = "strip_override" /\ cal.pc = "idle")
          => PixelCount(tx') <= strip_size]_vars

\* after a calibration to a shorter strip a frame longer than the strip was
\* sent and the cursor has passed the end
WipeOvershoots ==
    /\ call.op = "strip_override"
    /\ cal.pc = "returned"
    /\ pos > strip_size
    /\ PixelCount(tx) > strip_size
    /\ ~call.ret

---------------------------------------------------------------------------
(* SpecRainLive: the host loop runs strip_rain with one color and one       *)
(* max_drops for ever while the timer runs.  The host loop and the timer    *)
(* are weakly fair; what rand() returns is not.                             *)

LiveColors == {off, <<1, 0, 0>>, <<2, 1, 0>>}
LiveTimes == 0..MaxMs

InitRainLive ==
    /\ engine = "rain_live"
    /\ strip_size = MaxStrip
    /\ wiring = <<G, R, B>>
    /\ ms = 0
    /\ tx = <<>>
    /\ call = NoCall
    /\ pxbuf = pxbuf_init
    /\ HueInit
    /\ StaticsInit
    /\ rain_hist \in {[NoRain EXCEPT !.max_drops = n] : n \in RainDrops}
    /\ cal = NoCal
    /\ cal_hist = NoCalHist
    /\ breath_hist = NoBreaths

LiveTick ==
    /\ engine = "rain_live"
    /\ \E t \in LiveTimes : t > ms /\ ms' = t
    /\ call' = Call("tick", <<>>, FALSE)
    /\ UNCHANGED <<strip_size, wiring, tx, pxbuf, hueVars, engVars>>

\* rain_hist.fresh holds the position of the droplet the call inserted
RainLive(rgb, max_drops, gap, delay, rand1, rand2) ==
    /\ engine = "rain_live"
    /\ max_drops = rain_hist.max_drops
    /\ LET r == strip_rain(rgb, max_drops, gap[1], gap[2], delay, rand1, rand2)
       IN  /\ rain_pxbuf' = r.pxbuf
           /\ rain_hist' = [rain_hist EXCEPT
                                !.fresh = IF r.reset THEN {rand2 % strip_size}
                                          ELSE {}]
           /\ wait_until' = r.wait_until
           /\ tx' = r.tx
           /\ ms' = Timer(r.reset)
           /\ call' = Call("strip_rain", [rgb |-> rgb, max_drops |-> max_drops,
                               min_t_appart |-> gap[1], max_t_appart |-> gap[2],
                               delay |-> delay, rand |-> <<rand1, rand2>>], FALSE)
    /\ UNCHANGED <<strip_size, wiring, pxbuf, hueVars, calVars, breathVars, mixVars,
                   engine, waveVars, done, rainbow_rgb, rotate_rgb, pos, ticks>>

HostRainLive ==
    \E c \in LiveColors, n \in RainDrops, gap \in RainGaps, d \in RainDelays,
       r1 \in RandValues, r2 \in RandValues : RainLive(c, n, gap, d, r1, r2)

NextRainLive == LiveTick \/ HostRainLive

SpecRainLive ==
    /\ InitRainLive
    /\ [][NextRainLive]_vars
    /\ WF_vars(LiveTick)
    /\ WF_vars(HostRainLive)

\* the timer is reset again and again: it does not come to rest at the last
\* reading followed
TimeAdvances == []<>(ms < MaxMs)

\* no droplet stays for ever: again and again each position is free or holds
\* a droplet only just inserted
EveryDropletRemoved ==
    \A q \in 0..(MaxStrip - 1) :
        []<>(~Stored(rain_pxbuf, q) \/ q \in rain_hist.fresh)

\* C29: under repeated strip_rain calls with time advancing (host loop and
\* timer weakly fair) every droplet in the buffer is eventually removed, for
\* any number of droplets and any interleaving of insertions.
C29_DropletsRemoved == TimeAdvances => EveryDropletRemoved

\* as long as no call hands over black as the droplet color every droplet is
\* eventually removed
VisibleDropletsRemoved ==
    (TimeAdvances /\ [](call.op = "strip_rain" => call.arg.rgb # off))
        => EveryDropletRemoved

\* a droplet that is not black was passed over by a call that found the
\* decay interval elapsed, removed the black droplet before it and inserted
\* a black one again
DropletPassedOver ==
    /\ call.op = "strip_rain"
    /\ call.arg.rgb = off
    /\ rain_hist.fresh = {0}
    /\ rain_pxbuf.size = 2
    /\ rain_pxbuf.buf[1] = pxl(0, off)
    /\ rain_pxbuf.buf[2] = pxl(1, <<1, 0, 0>>)
    /\ wait_until = 1
    /\ ms = 0

====
